---- MODULE Spec2Model ----
(***************************************************************************)
(* A model of torrent-rs: the UDP tracker exchange (src/src/tracker.rs),   *)
(* the piece store (src/src/file.rs), the info-hash scanner and the        *)
(* metainfo decoder (src/src/decode_torrent.rs), the handshake             *)
(* (src/src/handshake.rs) and the peer session (src/src/peer.rs).          *)
(*                                                                         *)
(* Each subsystem has its own variables, its own initial predicate and its *)
(* own next-state relation; a subsystem's specification leaves the other   *)
(* subsystems' variables at rest.  Bytes are the integers 0..255 and a     *)
(* byte string is a sequence of bytes.  Source indices are 0-based: At and *)
(* Slice translate them.  A Rust panic (assert!, unwrap, slice index out   *)
(* of range, unimplemented!) is an outcome of its own, distinct from a     *)
(* returned Err value.                                                     *)
(***************************************************************************)
EXTENDS Integers, Sequences, FiniteSets, TLC

VARIABLES
    \* ---- UdpConnection (tracker.rs:14-18) and the last call on it
    t_cid,      \* self.cid: the 8 bytes of the u64, in memory order
    t_tid,      \* self.tid
    t_pc,       \* "ready" | "panicked"
    t_sent,     \* the datagram the last call sent (<<>>: none yet)
    t_resp,     \* the tracker's reply to the last call, as the tracker built it
    t_want,     \* num_peers of the last announce
    t_ret       \* what the last call returned: [op, kind, val]

VARIABLES
    \* ---- the backing file and FileEntity (file.rs:26-31)
    d_file,         \* the path on disk: [kind, bytes], absent, unreadable or a regular file
    f_pc,           \* "unbuilt" | "ready" | "failed" | "panicked"
    f_piece_size,   \* self.piece_size
    f_pieces,       \* self.pieces: per slot None or Some(the resident Piece's bytes)
    f_ret           \* the last call on the store: see Call

VARIABLES
    \* ---- get_info_hash (decode_torrent.rs:44-112)
    h_doc,      \* the metainfo file given: [pre, info, post], its bytes are pre \o info \o post
    h_ret       \* what get_info_hash made of it: [kind, buf]

VARIABLES
    \* ---- Peer (peer.rs:15-24), its stream, its tasks and its caller
    am_choking, am_interested, peer_choking, peer_interested,
    have,       \* self.have
    p_lock,     \* who holds the RwLock<Peer>: [task, id], NoTask when it is free
    p_conn,     \* the TCP connection: "open" | "eof" (closed by the remote) | "reset"
    p_wire,     \* the rest of what the remote sent last, still in flight
    p_in,       \* bytes that have arrived and have not been read
    p_out,      \* what was written on the stream, in order: [by, bytes]
    p_remote,   \* the remote: [hs: handshake sent, frames: frames sent, splits]
    k_pc,       \* keepalive: "tick" | "write" | "done" | "panicked"
    k_ticks,    \* ticks of the keepalive interval after the first
    r_pc,       \* listen_and_dispatch: "read_len" (about to try_read, or asleep before
                \*   it) | "read_body" | "body" | "dispatch" | "done" | "panicked"
    r_size,     \* size, once read
    r_buf,      \* buffer, as far as read_exact has filled it
    c_pc,       \* the caller: "new" | "recv" | "done" | "failed"
    resp        \* the tasks request has spawned: [pc, index, begin, length, buf, start],
                \*   pc: "load" | "loading" | "send" | "writing" | "done" | "panicked"

VARIABLES
    \* ---- MetaInfo::from_bencode (decode_torrent.rs:145-215)
    m_doc,      \* the metainfo file given: its top dictionary
    m_ret       \* what the decoder made of it: [kind, err, field, val]

VARIABLES
    \* ---- a Handshake (handshake.rs:10-16) and its wire form
    hs_value,   \* the Handshake value
    hs_bytes,   \* an array of HANDSHAKE_SIZE bytes
    hs_ret      \* the last call on them: [op, val], val what is_header_valid returned

tvars == <<t_cid, t_tid, t_pc, t_sent, t_resp, t_want, t_ret>>
fvars == <<d_file, f_pc, f_piece_size, f_pieces, f_ret>>
hvars == <<h_doc, h_ret>>
mvars == <<m_doc, m_ret>>
xvars == <<hs_value, hs_bytes, hs_ret>>
pvars == <<am_choking, am_interested, peer_choking, peer_interested, have, p_lock, p_conn,
           p_wire, p_in, p_out, p_remote, k_pc, k_ticks, r_pc, r_size, r_buf, c_pc, resp>>

\* what a subsystem's actions leave alone (a peer session owns a piece store)
OutsideTracker == <<fvars, hvars, pvars, mvars, xvars>>
OutsideFile == <<tvars, hvars, pvars, mvars, xvars>>
OutsideHash == <<tvars, fvars, pvars, mvars, xvars>>
OutsidePeer == <<tvars, hvars, mvars, xvars>>
OutsideMeta == <<tvars, hvars, xvars>>
OutsideHandshake == <<tvars, fvars, hvars, pvars, mvars>>

----------------------------------------------------------------------------
(* Bytes and byte order *)

Byte == 0..255

At(s, i) == s[i + 1]

\* s[from..to] of the source: indices from (inclusive) to to (exclusive)
Slice(s, from, to) == [k \in 1..(to - from) |-> s[from + k]]

Zeros(n) == [k \in 1..n |-> 0]

Min(a, b) == IF a < b THEN a ELSE b

\* Option<T>: None, Some(x)
None == <<>>
Some(x) == <<x>>
IsSome(o) == o # <<>>
Unwrap(o) == o[1]

\* u32::from_be_bytes / u16::from_be_bytes
FromBe32(b) == b[1] * 16777216 + b[2] * 65536 + b[3] * 256 + b[4]
FromBe16(b) == b[1] * 256 + b[2]
\* u32::to_be_bytes
ToBe32(n) == << (n \div 16777216) % 256, (n \div 65536) % 256, (n \div 256) % 256, n % 256 >>
\* Native byte order of the hosts the crate builds for (io_uring: Linux on
\* x86-64 / aarch64, little-endian): mem::transmute and u32::from_ne_bytes
FromNe32(b) == b[4] * 16777216 + b[3] * 65536 + b[2] * 256 + b[1]
ToNe32(n) == << n % 256, (n \div 256) % 256, (n \div 65536) % 256, (n \div 16777216) % 256 >>

----------------------------------------------------------------------------
(* UDP tracker exchange: src/src/tracker.rs *)

MaxWant == 2        \* num_peers of an announce is drawn from 0..MaxWant
MaxRecords == 2     \* a reply carries at most this many 6-byte records

\* transaction ids: the default of UdpConnection::new(_, None) and 0x01020304
TidSet == {0, 16909060}

\* connection ids a tracker may answer with (8 bytes each)
CidSet == { Zeros(8), <<200, 1, 2, 3, 4, 5, 6, 7>> }

\* actions a tracker may answer a connect and an announce with (3: error)
ConnectActions == {0, 3}
AnnounceActions == {1, 3}

\* compact peer records a tracker may answer with
RecordSet == { Zeros(6), <<10, 0, 0, 1, 0, 0>>, <<0, 0, 0, 0, 26, 225>> }

RECURSIVE SeqsUpTo(_, _)
SeqsUpTo(S, n) ==
    IF n = 0 THEN { <<>> }
    ELSE LET shorter == SeqsUpTo(S, n - 1)
         IN  shorter \cup { Append(s, x) : s \in { t \in shorter : Len(t) = n - 1 }, x \in S }

RECURSIVE Concat(_)
Concat(ss) == IF ss = <<>> THEN <<>> ELSE Head(ss) \o Concat(Tail(ss))

\* cid: 0x8019102717040000 of ConnectIn, as transmute lays it out in memory
CONNECT_MAGIC == <<0, 0, 4, 23, 39, 16, 25, 128>>

NoRet == [op |-> "none", kind |-> "none", val |-> <<>>]
NoResp == [kind |-> "none"]

\* UdpConnection::new: cid = ConnectionId::default(), tid = id.unwrap_or_default()
UdpConnectionNew(id) ==
    /\ t_cid = Zeros(8)
    /\ t_tid = id
    /\ t_pc = "ready"
    /\ t_sent = <<>>
    /\ t_resp = NoResp
    /\ t_want = 0
    /\ t_ret = NoRet

TrackerInit == \E id \in TidSet : UdpConnectionNew(id)

\* socket.recv(&mut buf): the datagram's bytes, cut to the buffer; the rest
\* of the buffer keeps what it held
Recv(buf, dgram) ==
    [k \in 1..Len(buf) |-> IF k <= Len(dgram) THEN dgram[k] ELSE buf[k]]

\* transmute of ConnectIn { cid, action: 0, tid } (repr(C): cid, action, tid)
ConnectInBytes(tid) == CONNECT_MAGIC \o ToNe32(0) \o ToNe32(tid)

\* a tracker's connect reply on the wire: action, transaction_id, connection_id.
\* The transaction id is echoed byte for byte from the request.
ConnectReplyBytes(r) == ToBe32(r.action) \o ToNe32(r.tid) \o r.cid

\* transmute of the 16 received bytes into ConnectOut { action, tid, cid }
ConnectOutOf(b) ==
    [action |-> FromNe32(Slice(b, 0, 4)), tid |-> FromNe32(Slice(b, 4, 8)), cid |-> Slice(b, 8, 16)]

\* the three assert! of connect
ConnectAsserts(cout, tid) == cout.action = 0 /\ cout.tid = tid /\ cout.cid # Zeros(8)

\* UdpConnection::connect, send and recv succeeding: tid is rand::random()
Connect ==
    /\ t_pc = "ready"
    /\ \E tid \in TidSet, r \in [action : ConnectActions, tid : TidSet, cid : CidSet] :
         LET data_in == ConnectInBytes(tid)
             data_out == Recv(Zeros(16), ConnectReplyBytes(r))
             cout == ConnectOutOf(data_out)
         IN  /\ t_sent' = data_in
             /\ t_resp' = [kind |-> "connect", action |-> r.action, tid |-> r.tid,
                           cid |-> r.cid, sent_tid |-> tid]
             /\ IF ConnectAsserts(cout, tid)
                THEN /\ t_tid' = tid
                     /\ t_cid' = cout.cid
                     /\ t_pc' = "ready"
                     /\ t_ret' = [op |-> "connect", kind |-> "ok", val |-> <<>>]
                ELSE /\ UNCHANGED <<t_tid, t_cid>>
                     /\ t_pc' = "panicked"
                     /\ t_ret' = [op |-> "connect", kind |-> "panic", val |-> <<>>]
    /\ UNCHANGED t_want
    /\ UNCHANGED OutsideTracker

\* UdpConnection::connect when socket.send or socket.recv fails: the ? returns
\* the io::Error before anything is stored
ConnectIoError ==
    /\ t_pc = "ready"
    /\ \E tid \in TidSet, sent \in BOOLEAN :
         t_sent' = IF sent THEN ConnectInBytes(tid) ELSE t_sent
    /\ t_resp' = NoResp
    /\ t_ret' = [op |-> "connect", kind |-> "err", val |-> "Io"]
    /\ UNCHANGED <<t_cid, t_tid, t_pc, t_want>>
    /\ UNCHANGED OutsideTracker

\* TORRENT_RS_PEER_ID = b"-RS0001-RANDOM_CHARA"
TORRENT_RS_PEER_ID ==
    <<45, 82, 83, 48, 48, 48, 49, 45, 82, 65, 78, 68, 79, 77, 95, 67, 72, 65, 82, 65>>

\* hash_to_bytes("52b62d34a8336f2e934df62181ad4c2f1b43c185"), the hash of the tests
TEST_INFO_HASH ==
    <<82, 182, 45, 52, 168, 51, 111, 46, 147, 77, 246, 33, 129, 173, 76, 47, 27, 67, 193, 133>>

\* transmute of the packed AnnounceIn: action and num_want are stored .to_be(),
\* cid and tid as the session holds them
AnnounceInBytes(cid, tid, num_peers) ==
    cid \o ToBe32(1) \o ToNe32(tid) \o TEST_INFO_HASH \o TORRENT_RS_PEER_ID
        \o Zeros(8) \o Zeros(8) \o Zeros(8) \o Zeros(4) \o Zeros(4) \o Zeros(4)
        \o ToBe32(num_peers) \o Zeros(2)

\* a tracker's announce reply on the wire: the 20-byte header, then the records
AnnounceReplyBytes(r) ==
    ToBe32(r.action) \o ToNe32(r.tid) \o ToBe32(r.interval) \o ToBe32(r.leechers)
        \o ToBe32(r.seeders) \o Concat(r.records)

ZeroPeer == << <<0, 0, 0, 0>>, 0 >>

\* the closure of the map over 0..n: slot x of the buffer as (Ipv4Addr, u16)
PeerSlot(buf, x) ==
    LET idx == 20 + 6 * x
    IN  << <<At(buf, idx), At(buf, idx + 1), At(buf, idx + 2), At(buf, idx + 3)>>,
           FromBe16(Slice(buf, 24 + x * 6, 26 + x * 6)) >>

\* (a filter that looks at the address alone)
KeepPeer_AddressOnly(ipport) == ipport[1] # ZeroPeer[1]

\* the filter of announce: keeps what is not (0.0.0.0, 0)
KeepPeer(ipport) == ipport # ZeroPeer

\* peers of AnnounceOut: None for num_peers = 0, else the kept slots in order
PeersOf(buf, num_peers) ==
    IF num_peers = 0 THEN None
    ELSE Some(SelectSeq([k \in 1..num_peers |-> PeerSlot(buf, k - 1)], KeepPeer))

\* AnnounceOut built from the receive buffer
AnnounceOutOf(buf, num_peers) ==
    [action |-> FromBe32(Slice(buf, 0, 4)),
     tid |-> FromNe32(Slice(buf, 4, 8)),
     interval |-> FromBe32(Slice(buf, 8, 12)),
     leechers |-> FromBe32(Slice(buf, 12, 16)),
     seeders |-> FromBe32(Slice(buf, 16, 20)),
     peers |-> PeersOf(buf, num_peers)]

AnnounceReplies ==
    [action : AnnounceActions, tid : TidSet, interval : {1800}, leechers : {0}, seeders : {1},
     records : SeqsUpTo(RecordSet, MaxRecords)]

\* UdpConnection::announce, send and recv succeeding (num_peers: None is 1)
Announce ==
    /\ t_pc = "ready"
    /\ \E num_peers \in 0..MaxWant, r \in AnnounceReplies :
         LET data == AnnounceInBytes(t_cid, t_tid, num_peers)
             buf == Recv(Zeros(20 + 6 * num_peers), AnnounceReplyBytes(r))
         IN  /\ t_sent' = data
             /\ t_want' = num_peers
             /\ t_resp' = [kind |-> "announce", action |-> r.action, tid |-> r.tid,
                           records |-> r.records]
             /\ t_ret' = [op |-> "announce", kind |-> "ok", val |-> AnnounceOutOf(buf, num_peers)]
    /\ UNCHANGED <<t_cid, t_tid, t_pc>>
    /\ UNCHANGED OutsideTracker

\* UdpConnection::announce when socket.send or socket.recv fails
AnnounceIoError ==
    /\ t_pc = "ready"
    /\ \E num_peers \in 0..MaxWant, sent \in BOOLEAN :
         /\ t_sent' = IF sent THEN AnnounceInBytes(t_cid, t_tid, num_peers) ELSE t_sent
         /\ t_want' = num_peers
    /\ t_resp' = NoResp
    /\ t_ret' = [op |-> "announce", kind |-> "err", val |-> "Io"]
    /\ UNCHANGED <<t_cid, t_tid, t_pc>>
    /\ UNCHANGED OutsideTracker

TrackerNext == Connect \/ ConnectIoError \/ Announce \/ AnnounceIoError

----------------------------------------------------------------------------
(* The piece store: src/src/file.rs.  The disk is fault-free here: a read   *)
(* of the backing file returns the bytes that exist at the offset, fewer    *)
(* than asked for at the end of the file.  Nothing in FileEntity writes the *)
(* backing file after construction (Piece::write has no caller).            *)

MaxP == 2           \* piece sizes are drawn from 0..MaxP
MaxS == 5           \* total sizes and existing files' sizes are drawn from 0..MaxS
MaxBlock == 2       \* a block written or read has at most this many bytes

\* the bytes a written block carries; the backing file holds other values
BlockBytes == {7}

\* a file that exists before construction: byte k of it is 10 + k
DiskFile(n) == [k \in 1..n |-> 10 + k]

\* the path on disk
Absent == [kind |-> "absent", bytes |-> <<>>]
NoAccess == [kind |-> "noaccess", bytes |-> <<>>]
RegularFile(bytes) == [kind |-> "file", bytes |-> bytes]

\* a call on the store: its arguments (data: the block given, or <<piece_size, size>>
\* of new; length: of sub_piece), how it ended and the bytes it returned
Call(op, index, offset, length, data, kind, val) ==
    [op |-> op, index |-> index, offset |-> offset, length |-> length, data |-> data,
     kind |-> kind, val |-> val]

NoCall == Call("none", 0, 0, 0, <<>>, "none", <<>>)

FileInit ==
    /\ d_file \in {Absent, NoAccess} \cup { RegularFile(DiskFile(n)) : n \in 0..MaxS }
    /\ f_pc = "unbuilt"
    /\ f_piece_size = 0
    /\ f_pieces = <<>>
    /\ f_ret = NoCall

\* fallocate: create_new, then libc::fallocate of size bytes, which read as 0
Fallocate(size) == RegularFile(Zeros(size))

\* the piece count, were a last, short piece not counted
PieceCount_Floor(size, piece_size) == size \div piece_size

\* the piece count of FileEntity::new (piece_size > 0)
PieceCount(size, piece_size) ==
    IF size % piece_size = 0 THEN size \div piece_size ELSE size \div piece_size + 1

\* FileEntity::new, were it to count the pieces before it looks at the path
FileEntityNew_PieceCountFirst ==
    /\ f_pc = "unbuilt"
    /\ \E piece_size \in 0..MaxP, size \in 0..MaxS :
         LET call(kind, val) == Call("new", 0, 0, 0, <<piece_size, size>>, kind, val)
         IN  IF piece_size = 0
             THEN /\ f_pc' = "panicked"
                  /\ f_ret' = call("panic", <<>>)
                  /\ UNCHANGED <<d_file, f_piece_size, f_pieces>>
             ELSE IF d_file.kind = "noaccess"
             THEN /\ f_pc' = "failed"
                  /\ f_ret' = call("PermissionDenied", <<>>)
                  /\ UNCHANGED <<d_file, f_piece_size, f_pieces>>
             ELSE IF d_file.kind = "file" /\ Len(d_file.bytes) # size
             THEN /\ f_pc' = "failed"
                  /\ f_ret' = call("AlreadyExists", <<>>)
                  /\ UNCHANGED <<d_file, f_piece_size, f_pieces>>
             ELSE /\ d_file' = IF d_file.kind = "absent" THEN Fallocate(size) ELSE d_file
                  /\ f_pc' = "ready"
                  /\ f_piece_size' = piece_size
                  /\ f_pieces' = [k \in 1..PieceCount(size, piece_size) |-> None]
                  /\ f_ret' = call("ok", <<>>)
    /\ UNCHANGED OutsideFile

\* FileEntity::new(file, piece_size, size)
FileEntityNew ==
    /\ f_pc = "unbuilt"
    /\ \E piece_size \in 0..MaxP, size \in 0..MaxS :
         LET call(kind, val) == Call("new", 0, 0, 0, <<piece_size, size>>, kind, val)
         IN  IF d_file.kind = "noaccess"
             THEN \* Err(e) => return Err(e)
                  /\ f_pc' = "failed"
                  /\ f_ret' = call("PermissionDenied", <<>>)
                  /\ UNCHANGED <<d_file, f_piece_size, f_pieces>>
             ELSE IF d_file.kind = "file" /\ Len(d_file.bytes) # size
             THEN \* m.is_file() && m.size() != size
                  /\ f_pc' = "failed"
                  /\ f_ret' = call("AlreadyExists", <<>>)
                  /\ UNCHANGED <<d_file, f_piece_size, f_pieces>>
             ELSE /\ d_file' = IF d_file.kind = "absent" THEN Fallocate(size) ELSE d_file
                  /\ IF piece_size = 0
                     THEN \* size % piece_size: remainder with a divisor of zero
                          /\ f_pc' = "panicked"
                          /\ f_ret' = call("panic", <<>>)
                          /\ UNCHANGED <<f_piece_size, f_pieces>>
                     ELSE /\ f_pc' = "ready"
                          /\ f_piece_size' = piece_size
                          /\ f_pieces' = [k \in 1..PieceCount(size, piece_size) |-> None]
                          /\ f_ret' = call("ok", <<>>)
    /\ UNCHANGED OutsideFile

\* read_at(file, buf, offset): how many bytes the file has for the buffer
BytesRead(file, offset, n) ==
    IF offset >= Len(file) THEN 0 ELSE Min(n, Len(file) - offset)

\* Piece::new(piece_size, actual_size, ring).bytes
PieceNew(piece_size, actual_size) == Zeros(actual_size)

\* the size load_piece gives Piece::new as actual_size
LoadSize(piece_size) == piece_size

\* Piece::read: [kind |-> "ok", bytes] or the panic of its assert!
PieceRead(bytes, file, offset) ==
    LET n == BytesRead(file, offset, Len(bytes))
    IN  IF n = Len(bytes)
        THEN [kind |-> "ok", bytes |-> [k \in 1..Len(bytes) |-> file[offset + k]]]
        ELSE [kind |-> "panic", bytes |-> bytes]

\* load_piece, were it to read the piece from the file whether a buffer is
\* resident or not
load_piece_Reread(pieces, piece_size, file, index) ==
    IF index >= Len(pieces) THEN [kind |-> "panic", pieces |-> pieces]
    ELSE LET piece == PieceNew(piece_size, LoadSize(piece_size))
             rd == PieceRead(piece, file, index * piece_size)
         IN  IF rd.kind = "ok"
             THEN [kind |-> "ok", pieces |-> [pieces EXCEPT ![index + 1] = Some(rd.bytes)]]
             ELSE [kind |-> "panic", pieces |-> pieces]

\* load_piece, were it to read the piece and not to install it
load_piece_NotInstalled(pieces, piece_size, file, index) ==
    IF index >= Len(pieces) THEN [kind |-> "panic", pieces |-> pieces]
    ELSE IF IsSome(At(pieces, index)) THEN [kind |-> "ok", pieces |-> pieces]
    ELSE LET piece == PieceNew(piece_size, LoadSize(piece_size))
             rd == PieceRead(piece, file, index * piece_size)
         IN  IF rd.kind = "ok"
             THEN [kind |-> "ok", pieces |-> pieces]
             ELSE [kind |-> "panic", pieces |-> pieces]

\* FileEntity::load_piece on a store (pieces, piece_size) over file:
\* [kind |-> "ok" | "panic", pieces]
load_piece(pieces, piece_size, file, index) ==
    IF index >= Len(pieces) THEN [kind |-> "panic", pieces |-> pieces]
    ELSE IF IsSome(At(pieces, index)) THEN [kind |-> "ok", pieces |-> pieces]
    ELSE LET piece == PieceNew(piece_size, LoadSize(piece_size))
             rd == PieceRead(piece, file, index * piece_size)
         IN  IF rd.kind = "ok"
             THEN [kind |-> "ok", pieces |-> [pieces EXCEPT ![index + 1] = Some(rd.bytes)]]
             ELSE [kind |-> "panic", pieces |-> pieces]

\* FileEntity::sub_piece: [kind |-> "ok", bytes] or a panic (slot empty, index
\* or range outside)
sub_piece(pieces, index, offset, length) ==
    IF index >= Len(pieces) THEN [kind |-> "panic", bytes |-> <<>>]
    ELSE IF ~IsSome(At(pieces, index)) THEN [kind |-> "panic", bytes |-> <<>>]
    ELSE LET p == Unwrap(At(pieces, index))
         IN  IF offset + length > Len(p) THEN [kind |-> "panic", bytes |-> <<>>]
             ELSE [kind |-> "ok", bytes |-> Slice(p, offset, offset + length)]

\* the loop of write_sub_piece over p.bytes[offset..offset + buf.len()]
Patch(bytes, offset, buf) ==
    [k \in 1..Len(bytes) |->
        IF k > offset /\ k <= offset + Len(buf) THEN buf[k - offset] ELSE bytes[k]]

\* FileEntity::write_sub_piece: [kind |-> "ok" | "panic", pieces]
write_sub_piece(pieces, piece_size, file, index, offset, buf) ==
    IF index >= Len(pieces) THEN [kind |-> "panic", pieces |-> pieces]
    ELSE LET ld == IF ~IsSome(At(pieces, index))
                   THEN load_piece(pieces, piece_size, file, index)
                   ELSE [kind |-> "ok", pieces |-> pieces]
         IN  IF ld.kind # "ok" THEN ld
             ELSE IF offset + Len(buf) > Len(Unwrap(At(ld.pieces, index)))
             THEN [kind |-> "panic", pieces |-> ld.pieces]
             ELSE [kind |-> "ok",
                   pieces |-> [ld.pieces EXCEPT ![index + 1] = Some(Patch(Unwrap(@), offset, buf))]]

Blocks == SeqsUpTo(BlockBytes, MaxBlock)

\* a call of load_piece on the store
LoadPiece ==
    /\ f_pc = "ready"
    /\ \E index \in 0..Len(f_pieces) :
         LET r == load_piece(f_pieces, f_piece_size, d_file.bytes, index)
         IN  /\ f_pieces' = r.pieces
             /\ f_pc' = IF r.kind = "panic" THEN "panicked" ELSE "ready"
             /\ f_ret' = Call("load_piece", index, 0, 0, <<>>, r.kind, <<>>)
    /\ UNCHANGED <<d_file, f_piece_size>>
    /\ UNCHANGED OutsideFile

\* a call of sub_piece on the store
SubPiece ==
    /\ f_pc = "ready"
    /\ \E index \in 0..Len(f_pieces), offset \in 0..MaxP, length \in 0..MaxBlock :
         LET r == sub_piece(f_pieces, index, offset, length)
         IN  /\ f_pc' = IF r.kind = "panic" THEN "panicked" ELSE "ready"
             /\ f_ret' = Call("sub_piece", index, offset, length, <<>>, r.kind, r.bytes)
    /\ UNCHANGED <<d_file, f_piece_size, f_pieces>>
    /\ UNCHANGED OutsideFile

\* a call of write_sub_piece on the store
WriteSubPiece ==
    /\ f_pc = "ready"
    /\ \E index \in 0..Len(f_pieces), offset \in 0..MaxP, buf \in Blocks :
         LET r == write_sub_piece(f_pieces, f_piece_size, d_file.bytes, index, offset, buf)
         IN  /\ f_pieces' = r.pieces
             /\ f_pc' = IF r.kind = "panic" THEN "panicked" ELSE "ready"
             /\ f_ret' = Call("write_sub_piece", index, offset, Len(buf), buf, r.kind, <<>>)
    /\ UNCHANGED <<d_file, f_piece_size>>
    /\ UNCHANGED OutsideFile

FileNext == FileEntityNew \/ LoadPiece \/ SubPiece \/ WriteSubPiece

----------------------------------------------------------------------------
(* The info-hash scanner: get_info_hash of src/src/decode_torrent.rs.       *)
(* h_ret.buf is the byte string the function hands to the SHA-1 hasher.     *)

MaxEntries == 2     \* an info dictionary has at most this many entries

\* the bytes the scanner tells apart
CH_COLON == 58
CH_0 == 48
CH_9 == 57
CH_D == 100
CH_E == 101
CH_I == 105
CH_L == 108

\* b"4:infod"
INFO_MARKER == <<52, 58, 105, 110, 102, 111, 100>>

\* bytes_to_num: None when a byte below b'0' makes x - b'0' overflow (a panic
\* of the checked build)
RECURSIVE bytes_to_num_from(_, _)
bytes_to_num_from(input, res) ==
    IF input = <<>> THEN Some(res)
    ELSE IF Head(input) < CH_0 THEN None
    ELSE bytes_to_num_from(Tail(input), res * 10 + (Head(input) - CH_0))

bytes_to_num(input) == bytes_to_num_from(input, 0)

\* the first loop: the least idx with input[idx..idx + 7] == b"4:infod", or -1
\* when the slice runs past the input first (a panic)
RECURSIVE FindMarker(_, _)
FindMarker(input, idx) ==
    IF idx + 7 > Len(input) THEN -1
    ELSE IF Slice(input, idx, idx + 7) = INFO_MARKER THEN idx
    ELSE FindMarker(input, idx + 1)

\* the least k >= idx with input[k] == stop, or -1 when input ends first
RECURSIVE IndexOfFrom(_, _, _)
IndexOfFrom(input, idx, stop) ==
    IF idx >= Len(input) THEN -1
    ELSE IF At(input, idx) = stop THEN idx
    ELSE IndexOfFrom(input, idx + 1, stop)

ScanPanic == [kind |-> "panic", buf |-> <<>>]

\* the second loop, from idx with buf collected and stack open brackets
RECURSIVE Scan(_, _, _, _)
Scan(input, idx, buf, stack) ==
    IF idx >= Len(input) THEN ScanPanic
    ELSE LET c == At(input, idx)
         IN  IF c = CH_E /\ stack = 0 THEN [kind |-> "ok", buf |-> buf]
             ELSE IF c = CH_E THEN Scan(input, idx + 1, Append(buf, c), stack - 1)
             ELSE IF c >= CH_0 /\ c <= CH_9
             THEN LET colon == IndexOfFrom(input, idx, CH_COLON)
                  IN  IF colon < 0 THEN ScanPanic
                      ELSE LET num == bytes_to_num(Slice(input, idx, colon))
                           IN  IF ~IsSome(num) THEN ScanPanic
                               ELSE IF colon + Unwrap(num) + 1 > Len(input) THEN ScanPanic
                               ELSE Scan(input, colon + Unwrap(num) + 1,
                                         buf \o Slice(input, idx, colon + Unwrap(num) + 1), stack)
             ELSE IF c = CH_I
             THEN LET close == IndexOfFrom(input, idx, CH_E)
                  IN  IF close < 0 THEN ScanPanic
                      ELSE Scan(input, close + 1, buf \o Slice(input, idx, close + 1), stack)
             ELSE IF c = CH_L \/ c = CH_D THEN Scan(input, idx + 1, Append(buf, c), stack + 1)
             ELSE ScanPanic

\* get_info_hash up to the hasher: [kind |-> "ok", buf] or a panic
get_info_hash(input) ==
    LET at == FindMarker(input, 0)
    IN  IF at < 0 THEN ScanPanic
        ELSE LET r == Scan(input, at + 7, <<CH_D>>, 0)
             IN  IF r.kind = "ok" THEN [kind |-> "ok", buf |-> Append(r.buf, CH_E)] ELSE r

\* <n>:<bytes> and i<n>e of bencode (n < 100)
Digits(n) == IF n < 10 THEN <<CH_0 + n>> ELSE <<CH_0 + (n \div 10), CH_0 + (n % 10)>>
BStr(bytes) == Digits(Len(bytes)) \o <<CH_COLON>> \o bytes
BInt(digits) == <<CH_I>> \o digits \o <<CH_E>>
BList(items) == <<CH_L>> \o Concat(items) \o <<CH_E>>
BDict(entries) == <<CH_D>> \o Concat(entries) \o <<CH_E>>

K_ANNOUNCE == <<97, 110, 110, 111, 117, 110, 99, 101>>
K_COMMENT == <<99, 111, 109, 109, 101, 110, 116>>
K_INFO == <<105, 110, 102, 111>>
K_LENGTH == <<108, 101, 110, 103, 116, 104>>
K_NAME == <<110, 97, 109, 101>>
K_PIECE_LENGTH == <<112, 105, 101, 99, 101, 32, 108, 101, 110, 103, 116, 104>>
K_PIECES == <<112, 105, 101, 99, 101, 115>>
K_FILES == <<102, 105, 108, 101, 115>>
K_PATH == <<112, 97, 116, 104>>
K_URL_LIST == <<117, 114, 108, 45, 108, 105, 115, 116>>

\* byte-string contents a metainfo file may carry: "x", "e", "de:i1", "4:infod"
TEXT_X == <<120>>
TEXT_E == <<101>>
TEXT_TOKENS == <<100, 101, 58, 105, 49>>
TEXT_MARKER == <<52, 58, 105, 110, 102, 111, 100>>

\* entries (key then value) an info dictionary may hold: integers (one
\* negative), byte strings, a list of dictionaries holding a list
InfoEntries ==
    { BStr(K_LENGTH) \o BInt(<<53>>),
      BStr(K_PIECE_LENGTH) \o BInt(<<45, 50>>),
      BStr(K_NAME) \o BStr(TEXT_E),
      BStr(K_NAME) \o BStr(TEXT_TOKENS),
      BStr(K_PIECES) \o BStr(TEXT_MARKER \o TEXT_TOKENS),
      BStr(K_FILES) \o BList(<< BDict(<< BStr(K_PATH) \o BList(<< BStr(TEXT_X) >>) >>) >>) }

\* a metainfo file: the root dictionary up to the info key, the info value,
\* and the rest of the root dictionary
HashDocs ==
    { [pre |-> <<CH_D>> \o BStr(K_ANNOUNCE) \o BStr(a) \o c \o BStr(K_INFO),
       info |-> BDict(es),
       post |-> u \o <<CH_E>>] :
        a \in {TEXT_X, TEXT_MARKER},
        c \in {<<>>, BStr(K_COMMENT) \o BStr(TEXT_E), BStr(K_COMMENT) \o BStr(TEXT_MARKER)},
        es \in SeqsUpTo(InfoEntries, MaxEntries),
        u \in {<<>>, BStr(K_URL_LIST) \o BStr(TEXT_TOKENS)} }

DocBytes(doc) == doc.pre \o doc.info \o doc.post

NoHash == [kind |-> "none", buf |-> <<>>]

HashInit ==
    /\ h_doc \in HashDocs
    /\ h_ret = NoHash

\* a call of get_info_hash on the file's bytes
GetInfoHash ==
    /\ h_ret = NoHash
    /\ h_ret' = get_info_hash(DocBytes(h_doc))
    /\ UNCHANGED h_doc
    /\ UNCHANGED OutsideHash

HashNext == GetInfoHash

----------------------------------------------------------------------------
(* The peer session: src/src/peer.rs.  A session is the Peer behind its     *)
(* RwLock, the TCP stream, the two tasks Peer::new spawns (keepalive,       *)
(* listen_and_dispatch), one task per request received, and the caller that *)
(* got the Arc back and runs the handshake on the stream.  A step of a task *)
(* runs from one await that suspends to the next.                           *)

PeerPieceSize == 2  \* piece length of the session's torrent
PeerFileSize == 3   \* file length of the session's torrent
MaxFrames == 2      \* the remote sends at most this many frames after its handshake
MaxSplits == 1      \* at most this many arrivals cut what is in flight
MaxSeg == 3         \* an arrival that cuts what is in flight carries 1..MaxSeg bytes
MaxTicks == 1       \* the keepalive timer fires at most this often after its first tick
MaxPieces == 10     \* dispatch in isolation: the have vector has 0..MaxPieces entries
MaxPayload == 2     \* dispatch in isolation: a bitfield payload has 0..MaxPayload bytes

\* the holder of the RwLock<Peer>
NoTask == [task |-> "none", id |-> 0]
Keepalive == [task |-> "keepalive", id |-> 0]
Reader == [task |-> "reader", id |-> 0]
Caller == [task |-> "caller", id |-> 0]
Responder(i) == [task |-> "responder", id |-> i]

\* b"BitTorrent protocol"
PSTR == <<66, 105, 116, 84, 111, 114, 114, 101, 110, 116, 32, 112, 114, 111, 116, 111, 99, 111, 108>>
PSTR_LEN == 19
RESERVED_LEN == 8
INFO_HASH_LEN == 20
PEER_ID_LEN == 20
HANDSHAKE_SIZE == 1 + PSTR_LEN + RESERVED_LEN + INFO_HASH_LEN + PEER_ID_LEN

\* Handshake::default() with the hash the caller sets
HandshakeDefault(hash) ==
    [pstr_len |-> PSTR_LEN, protocol |-> PSTR, reserved |-> Zeros(RESERVED_LEN),
     info_hash |-> hash, peer_id |-> TORRENT_RS_PEER_ID]

\* a wire form that has the peer id before the info hash
to_bytes_PeerIdFirst(hs) ==
    <<hs.pstr_len>> \o hs.protocol \o hs.reserved \o hs.peer_id \o hs.info_hash

\* Handshake::to_bytes
to_bytes(hs) == <<hs.pstr_len>> \o hs.protocol \o hs.reserved \o hs.info_hash \o hs.peer_id

\* the remote's peer id
REMOTE_PEER_ID ==
    <<45, 84, 82, 50, 57, 52, 48, 45, 48, 49, 50, 51, 52, 53, 54, 55, 56, 57, 48, 49>>

\* the handshake the remote sends
RemoteHandshakeBytes ==
    to_bytes([HandshakeDefault(TEST_INFO_HASH) EXCEPT !.peer_id = REMOTE_PEER_ID])

\* a frame on the wire: u32 length, id, payload
Frame(id, payload) == ToBe32(1 + Len(payload)) \o <<id>> \o payload
KeepAliveFrame == Zeros(4)
RequestPayload(index, begin, length) == ToBe32(index) \o ToBe32(begin) \o ToBe32(length)

\* what the remote may send after its handshake: keep-alive, choke, have(1),
\* bitfield 0100 0000, a bitfield without payload, request(0, 0, 2), a
\* message of id 9
PeerFrames ==
    { KeepAliveFrame, Frame(0, <<>>), Frame(4, ToBe32(1)), Frame(5, <<64>>), Frame(5, <<>>),
      Frame(6, RequestPayload(0, 0, 2)), Frame(9, <<>>) }

flags == <<am_choking, am_interested, peer_choking, peer_interested>>
streamvars == <<p_conn, p_wire, p_in, p_out, p_remote>>
keepvars == <<k_pc, k_ticks>>
readvars == <<r_pc, r_size, r_buf>>

\* FileEntity::new of Peer::new returning Ok: the store over the torrent's file
PeerStore ==
    /\ d_file = RegularFile(DiskFile(PeerFileSize))
    /\ f_pc = "ready"
    /\ f_piece_size = PeerPieceSize
    /\ f_pieces = [k \in 1..PieceCount(PeerFileSize, PeerPieceSize) |-> None]
    /\ f_ret = Call("new", 0, 0, 0, <<PeerPieceSize, PeerFileSize>>, "ok", <<>>)

\* Peer::new returning Ok: the four flags, have all false (one entry per
\* piece of the torrent), the stream connected, both tasks spawned
PeerNew(pieces) ==
    /\ am_choking = TRUE
    /\ am_interested = FALSE
    /\ peer_choking = TRUE
    /\ peer_interested = FALSE
    /\ have = [k \in 1..pieces |-> FALSE]
    /\ p_lock = NoTask
    /\ p_conn = "open"
    /\ p_wire = <<>>
    /\ p_in = <<>>
    /\ p_out = <<>>
    /\ p_remote = [hs |-> FALSE, frames |-> 0, splits |-> 0]
    /\ k_pc = "tick"
    /\ k_ticks = 0
    /\ r_pc = "read_len"
    /\ r_size = 0
    /\ r_buf = <<>>
    /\ c_pc = "new"
    /\ resp = <<>>

PeerInit == PeerStore /\ PeerNew(PieceCount(PeerFileSize, PeerPieceSize))

\* no more bytes will arrive: the connection was reset, or the remote closed
\* it and all it sent has arrived
StreamEnded == p_conn = "reset" \/ (p_conn = "eof" /\ p_wire = <<>>)

\* TcpStream::try_write(buf): Ok(n) with all of buf taken or its first byte
\* only, WouldBlock, or another error once the remote is gone
TryWrite(buf) ==
    IF p_conn = "reset" THEN { [kind |-> "err", n |-> 0] }
    ELSE { [kind |-> "ok", n |-> n] : n \in {Min(1, Len(buf)), Len(buf)} }
         \cup { [kind |-> "wouldblock", n |-> 0] }
         \cup (IF p_conn = "eof" THEN { [kind |-> "err", n |-> 0] } ELSE {})

\* TcpStream::try_read into a buffer of n bytes: Ok(the bytes there are, at
\* most n; none at the end of the stream), WouldBlock or another error
TryRead(n) ==
    IF p_in # <<>> THEN [kind |-> "ok", bytes |-> SubSeq(p_in, 1, Min(n, Len(p_in)))]
    ELSE IF p_conn = "reset" THEN [kind |-> "err", bytes |-> <<>>]
    ELSE IF StreamEnded THEN [kind |-> "ok", bytes |-> <<>>]
    ELSE [kind |-> "wouldblock", bytes |-> <<>>]

Drop(s, n) == SubSeq(s, n + 1, Len(s))

\* the stream's output once by has written bytes: p_out keeps, in order, what
\* each writer wrote without another writing in between
Written(out, by, bytes) ==
    IF out # <<>> /\ out[Len(out)].by = by
    THEN [out EXCEPT ![Len(out)].bytes = @ \o bytes]
    ELSE Append(out, [by |-> by, bytes |-> bytes])

(* keepalive *)

\* interval.tick().await in the loop: 110 s have passed (the tick before the
\* loop is immediate)
KeepaliveTick ==
    /\ k_pc = "tick"
    /\ k_ticks < MaxTicks
    /\ k_pc' = "write"
    /\ k_ticks' = k_ticks + 1
    /\ UNCHANGED <<flags, have, p_lock, streamvars, readvars, c_pc, resp, fvars>>
    /\ UNCHANGED OutsidePeer

\* the inner loop: peer.write().await.stream.try_write(&PAYLOAD) and its match
KeepaliveWrite ==
    /\ k_pc = "write"
    /\ p_lock = NoTask
    /\ \E tw_res \in TryWrite(KeepAliveFrame) :
         CASE tw_res.kind = "ok" ->
                /\ p_out' = Written(p_out, Keepalive, SubSeq(KeepAliveFrame, 1, tw_res.n))
                /\ k_pc' = IF tw_res.n = Len(KeepAliveFrame) THEN "tick" ELSE "panicked"
           [] tw_res.kind = "wouldblock" ->
                UNCHANGED <<p_out, k_pc>>
           [] tw_res.kind = "err" ->
                /\ k_pc' = "done"
                /\ UNCHANGED p_out
    /\ UNCHANGED <<flags, have, p_lock, p_conn, p_wire, p_in, p_remote, k_ticks, readvars, c_pc, resp, fvars>>
    /\ UNCHANGED OutsidePeer

(* listen_and_dispatch *)

\* let resp = peer.write().await.stream.try_read(&mut size), down to the
\* size == 0 test: the count try_read returns is not looked at, the bytes it
\* did not fill stay 0
ReaderTryRead ==
    /\ r_pc = "read_len"
    /\ p_lock = NoTask
    /\ LET rd == TryRead(4)
           size == FromBe32([k \in 1..4 |-> IF k <= Len(rd.bytes) THEN rd.bytes[k] ELSE 0])
       IN  CASE rd.kind = "wouldblock" ->
                  \* time::sleep(100 ms), then the loop again
                  UNCHANGED <<p_in, r_size, r_pc>>
             [] rd.kind = "err" ->
                  /\ r_pc' = "done"
                  /\ UNCHANGED <<p_in, r_size>>
             [] rd.kind = "ok" ->
                  /\ p_in' = Drop(p_in, Len(rd.bytes))
                  /\ r_size' = size
                  /\ r_pc' = IF size = 0 THEN "read_len" ELSE "read_body"
    /\ UNCHANGED <<flags, have, p_lock, p_conn, p_wire, p_out, p_remote, keepvars, r_buf, c_pc, resp, fvars>>
    /\ UNCHANGED OutsidePeer

\* peer.write().await.stream.read_exact(&mut buffer).await.unwrap(): the
\* write guard lives to the end of the statement.  With the bytes there, the
\* read is done at once; at the end of the stream unwrap panics; else the
\* task is suspended in read_exact with what it got so far, holding the guard
ReaderReadBody ==
    /\ r_pc = "read_body"
    /\ p_lock = NoTask
    /\ IF Len(p_in) >= r_size
       THEN /\ r_buf' = SubSeq(p_in, 1, r_size)
            /\ p_in' = Drop(p_in, r_size)
            /\ r_pc' = "dispatch"
            /\ UNCHANGED p_lock
       ELSE IF StreamEnded
       THEN /\ r_pc' = "panicked"
            /\ p_in' = <<>>
            /\ UNCHANGED <<r_buf, p_lock>>
       ELSE /\ r_buf' = p_in
            /\ p_in' = <<>>
            /\ r_pc' = "body"
            /\ p_lock' = Reader
    /\ UNCHANGED <<flags, have, p_conn, p_wire, p_out, p_remote, keepvars, r_size, c_pc, resp, fvars>>
    /\ UNCHANGED OutsidePeer

\* read_exact woken: more bytes are there, or the stream ended
ReaderBodyMore ==
    /\ r_pc = "body"
    /\ p_in # <<>> \/ StreamEnded
    /\ LET need == r_size - Len(r_buf)
       IN  IF Len(p_in) >= need
           THEN /\ r_buf' = r_buf \o SubSeq(p_in, 1, need)
                /\ p_in' = Drop(p_in, need)
                /\ r_pc' = "dispatch"
                /\ p_lock' = NoTask
           ELSE IF p_in = <<>>
           THEN /\ r_pc' = "panicked"
                /\ p_lock' = NoTask
                /\ UNCHANGED <<r_buf, p_in>>
           ELSE /\ r_buf' = r_buf \o p_in
                /\ p_in' = <<>>
                /\ UNCHANGED <<r_pc, p_lock>>
    /\ UNCHANGED <<flags, have, p_conn, p_wire, p_out, p_remote, keepvars, r_size, c_pc, resp, fvars>>
    /\ UNCHANGED OutsidePeer

\* the handler is done (to: "read_len") or the task has panicked
ReaderAfter(to) ==
    /\ r_pc' = to
    /\ r_size' = 0
    /\ r_buf' = <<>>

\* the ids whose handlers are unimplemented!(): choke, unchoke, interested,
\* not_interested, piece, cancel
UnimplementedIds == {0, 1, 2, 3, 7, 8}

\* match buffer[0]: 0 | 1 | 2 | 3 | 7 | 8
DispatchUnimplemented ==
    /\ r_pc = "dispatch"
    /\ r_buf[1] \in UnimplementedIds
    /\ ReaderAfter("panicked")
    /\ UNCHANGED <<flags, have, p_lock, streamvars, keepvars, c_pc, resp, fvars>>
    /\ UNCHANGED OutsidePeer

\* match buffer[0]: n => panic!
DispatchUnknown ==
    /\ r_pc = "dispatch"
    /\ r_buf[1] > 8
    /\ ReaderAfter("panicked")
    /\ UNCHANGED <<flags, have, p_lock, streamvars, keepvars, c_pc, resp, fvars>>
    /\ UNCHANGED OutsidePeer

\* have, were it to keep only the entry it sets
have_handler_OnlyThisPiece(hv, buffer) ==
    IF Len(buffer) # 4 THEN [kind |-> "panic", have |-> hv]
    ELSE IF FromBe32(buffer) >= Len(hv) THEN [kind |-> "panic", have |-> hv]
    ELSE [kind |-> "ok", have |-> [k \in 1..Len(hv) |-> k = FromBe32(buffer) + 1]]

\* have(peer, buffer): [kind |-> "ok" | "panic", have]
have_handler(hv, buffer) ==
    IF Len(buffer) # 4 THEN [kind |-> "panic", have |-> hv]
    ELSE IF FromBe32(buffer) >= Len(hv) THEN [kind |-> "panic", have |-> hv]
    ELSE [kind |-> "ok", have |-> [hv EXCEPT ![FromBe32(buffer) + 1] = TRUE]]

\* match buffer[0]: 4 => have(&peer, &buffer[1..])
DispatchHave ==
    /\ r_pc = "dispatch"
    /\ r_buf[1] = 4
    /\ p_lock = NoTask
    /\ LET r == have_handler(have, Tail(r_buf))
       IN  /\ have' = r.have
           /\ ReaderAfter(IF r.kind = "ok" THEN "read_len" ELSE "panicked")
    /\ UNCHANGED <<flags, p_lock, streamvars, keepvars, c_pc, resp, fvars>>
    /\ UNCHANGED OutsidePeer

\* x & (1 << shift) != 0
Bit(x, shift) == (x \div (2 ^ shift)) % 2 = 1

\* the loop while idx + 8 < len of bitfield: byte idx / 8 gives have[idx..idx + 8]
RECURSIVE bitfield_whole_bytes(_, _, _)
bitfield_whole_bytes(hv, buffer, idx) ==
    IF idx + 8 < Len(hv)
    THEN LET x == At(buffer, idx \div 8)
         IN  bitfield_whole_bytes(
                 [k \in 1..Len(hv) |->
                     IF k > idx /\ k <= idx + 8 THEN Bit(x, 7 - (k - 1 - idx)) ELSE hv[k]],
                 buffer, idx + 8)
    ELSE [have |-> hv, idx |-> idx]

\* the byte the loop over the remaining bits takes them from
RemainingByte(buffer) == At(buffer, Len(buffer) - 1)

\* bitfield(peer, buffer): [kind |-> "ok" | "panic", have]
bitfield(hv, buffer) ==
    IF ~(Len(hv) <= Len(buffer) * 8) THEN [kind |-> "panic", have |-> hv]
    ELSE LET w == bitfield_whole_bytes(hv, buffer, 0)
         IN  [kind |-> "ok",
              have |-> [k \in 1..Len(hv) |->
                          IF k > w.idx
                          THEN Bit(RemainingByte(buffer), 7 - (k - 1 - w.idx))
                          ELSE w.have[k]]]

\* match buffer[0]: 5 => bitfield(&peer, &buffer[1..])
DispatchBitfield ==
    /\ r_pc = "dispatch"
    /\ r_buf[1] = 5
    /\ p_lock = NoTask
    /\ LET r == bitfield(have, Tail(r_buf))
       IN  /\ have' = r.have
           /\ ReaderAfter(IF r.kind = "ok" THEN "read_len" ELSE "panicked")
    /\ UNCHANGED <<flags, p_lock, streamvars, keepvars, c_pc, resp, fvars>>
    /\ UNCHANGED OutsidePeer

\* match buffer[0]: 6 => request(&peer, &buffer[1..]), up to tokio::spawn:
\* a payload under 12 bytes panics in the slicing, else a task is spawned
DispatchRequest ==
    /\ r_pc = "dispatch"
    /\ r_buf[1] = 6
    /\ LET buffer == Tail(r_buf)
       IN  IF Len(buffer) < 12
           THEN /\ ReaderAfter("panicked")
                /\ UNCHANGED resp
           ELSE /\ resp' = Append(resp, [pc |-> "load",
                                         index |-> FromBe32(Slice(buffer, 0, 4)),
                                         begin |-> FromBe32(Slice(buffer, 4, 8)),
                                         length |-> FromBe32(Slice(buffer, 8, 12)),
                                         buf |-> <<>>, start |-> 0])
                /\ ReaderAfter("read_len")
    /\ UNCHANGED <<flags, have, p_lock, streamvars, keepvars, c_pc, fvars>>
    /\ UNCHANGED OutsidePeer

(* the task request spawns *)

\* load_piece(index) suspends in the read of the file: the slot exists and is empty
LoadSuspends(index) == index < Len(f_pieces) /\ ~IsSome(At(f_pieces, index))

\* let res = peer.write().await.file.load_piece(index).await: the write guard
\* lives to the end of the statement.  A resident piece returns at once, a
\* slot that does not exist panics at once, else the task is suspended in the
\* read of the file, holding the guard
RespLoad(i) ==
    /\ resp[i].pc = "load"
    /\ p_lock = NoTask
    /\ IF LoadSuspends(resp[i].index)
       THEN /\ p_lock' = Responder(i)
            /\ resp' = [resp EXCEPT ![i].pc = "loading"]
       ELSE /\ UNCHANGED p_lock
            /\ resp' = [resp EXCEPT ![i].pc =
                          IF load_piece(f_pieces, f_piece_size, d_file.bytes, resp[i].index).kind = "ok"
                          THEN "send" ELSE "panicked"]
    /\ UNCHANGED <<flags, have, streamvars, keepvars, readvars, c_pc, fvars>>
    /\ UNCHANGED OutsidePeer

\* the read of the file is over: the piece is installed, or the task panics
RespLoaded(i) ==
    /\ resp[i].pc = "loading"
    /\ LET r == load_piece(f_pieces, f_piece_size, d_file.bytes, resp[i].index)
       IN  /\ f_pieces' = r.pieces
           /\ resp' = [resp EXCEPT ![i].pc = IF r.kind = "ok" THEN "send" ELSE "panicked"]
    /\ p_lock' = NoTask
    /\ UNCHANGED <<flags, have, streamvars, keepvars, readvars, c_pc, d_file, f_pc, f_piece_size, f_ret>>
    /\ UNCHANGED OutsidePeer

\* let peer_lock = peer.write().await; let buf = peer_lock.file.sub_piece(..)
RespSend(i) ==
    /\ resp[i].pc = "send"
    /\ p_lock = NoTask
    /\ LET r == sub_piece(f_pieces, resp[i].index, resp[i].begin, resp[i].length)
       IN  IF r.kind = "ok"
           THEN /\ p_lock' = Responder(i)
                /\ resp' = [resp EXCEPT ![i].pc = "writing", ![i].buf = r.bytes, ![i].start = 0]
           ELSE /\ UNCHANGED p_lock
                /\ resp' = [resp EXCEPT ![i].pc = "panicked"]
    /\ UNCHANGED <<flags, have, streamvars, keepvars, readvars, c_pc, fvars>>
    /\ UNCHANGED OutsidePeer

\* a turn of the loop that gives the lock up after a short write
RespTryWrite_UnlockBetween(i) ==
    /\ resp[i].pc = "writing"
    /\ LET rest == Drop(resp[i].buf, resp[i].start)
       IN  \E tw \in TryWrite(rest) :
             CASE tw.kind = "ok" ->
                    /\ p_out' = Written(p_out, Responder(i), SubSeq(rest, 1, tw.n))
                    /\ IF tw.n = Len(rest)
                       THEN /\ resp' = [resp EXCEPT ![i].pc = "done", ![i].buf = <<>>, ![i].start = 0]
                            /\ p_lock' = NoTask
                       ELSE /\ resp' = [resp EXCEPT ![i].start = @ + tw.n]
                            /\ p_lock' = NoTask
               [] tw.kind = "wouldblock" ->
                    UNCHANGED <<p_out, resp, p_lock>>
               [] tw.kind = "err" ->
                    /\ resp' = [resp EXCEPT ![i].pc = "panicked", ![i].buf = <<>>, ![i].start = 0]
                    /\ p_lock' = NoTask
                    /\ UNCHANGED p_out
    /\ UNCHANGED <<flags, have, p_conn, p_wire, p_in, p_remote, keepvars, readvars, c_pc, fvars>>
    /\ UNCHANGED OutsidePeer

\* one turn of the loop: peer_lock.stream.try_write(&buf[start..]) and its match
RespTryWrite(i) ==
    /\ resp[i].pc = "writing"
    /\ LET rest == Drop(resp[i].buf, resp[i].start)
       IN  \E tw \in TryWrite(rest) :
             CASE tw.kind = "ok" ->
                    /\ p_out' = Written(p_out, Responder(i), SubSeq(rest, 1, tw.n))
                    /\ IF tw.n = Len(rest)
                       THEN /\ resp' = [resp EXCEPT ![i].pc = "done", ![i].buf = <<>>, ![i].start = 0]
                            /\ p_lock' = NoTask
                       ELSE /\ resp' = [resp EXCEPT ![i].start = @ + tw.n]
                            /\ UNCHANGED p_lock
               [] tw.kind = "wouldblock" ->
                    UNCHANGED <<p_out, resp, p_lock>>
               [] tw.kind = "err" ->
                    /\ resp' = [resp EXCEPT ![i].pc = "panicked", ![i].buf = <<>>, ![i].start = 0]
                    /\ p_lock' = NoTask
                    /\ UNCHANGED p_out
    /\ UNCHANGED <<flags, have, p_conn, p_wire, p_in, p_remote, keepvars, readvars, c_pc, fvars>>
    /\ UNCHANGED OutsidePeer

(* the caller of Peer::new: tests/peer.rs common() *)

\* let mut peer = peer.write().await, and Handshake::send as far as it runs
\* before it has to wait: the 68 bytes of the handshake are written
CallerSend ==
    /\ c_pc = "new"
    /\ p_lock = NoTask
    /\ IF p_conn = "reset"
       THEN /\ c_pc' = "failed"
            /\ UNCHANGED <<p_out, p_lock>>
       ELSE /\ p_out' = Written(p_out, Caller, to_bytes(HandshakeDefault(TEST_INFO_HASH)))
            /\ c_pc' = "recv"
            /\ p_lock' = Caller
    /\ UNCHANGED <<flags, have, p_conn, p_wire, p_in, p_remote, keepvars, readvars, resp, fvars>>
    /\ UNCHANGED OutsidePeer

\* Handshake::send, second half: the remote's 68 bytes are read, then the
\* guard of common() is dropped
CallerRecv ==
    /\ c_pc = "recv"
    /\ Len(p_in) >= HANDSHAKE_SIZE \/ StreamEnded
    /\ IF Len(p_in) >= HANDSHAKE_SIZE
       THEN /\ p_in' = Drop(p_in, HANDSHAKE_SIZE)
            /\ c_pc' = "done"
       ELSE /\ p_in' = <<>>
            /\ c_pc' = "failed"
    /\ p_lock' = NoTask
    /\ UNCHANGED <<flags, have, p_conn, p_wire, p_out, p_remote, keepvars, readvars, resp, fvars>>
    /\ UNCHANGED OutsidePeer

(* the remote peer and the network *)

\* bytes the remote sends arrive, all at once or a first segment of them now
\* and the rest later; q is the remote once it has sent them
Arrive(bytes, q) ==
    \/ /\ p_in' = p_in \o bytes
       /\ p_wire' = <<>>
       /\ p_remote' = q
    \/ /\ q.splits < MaxSplits
       /\ \E n \in 1..Min(MaxSeg, Len(bytes) - 1) :
            /\ p_in' = p_in \o SubSeq(bytes, 1, n)
            /\ p_wire' = Drop(bytes, n)
       /\ p_remote' = [q EXCEPT !.splits = @ + 1]

\* the remote sends its handshake: once the connection is open, whenever it
\* likes.  (What the remote sends while bytes are in flight arrives as if it
\* had sent it after they arrived: it sends when nothing is in flight.)
RemoteHandshake ==
    /\ p_conn = "open"
    /\ p_wire = <<>>
    /\ ~p_remote.hs
    /\ Arrive(RemoteHandshakeBytes, [p_remote EXCEPT !.hs = TRUE])
    /\ UNCHANGED <<flags, have, p_lock, p_conn, p_out, keepvars, readvars, c_pc, resp, fvars>>
    /\ UNCHANGED OutsidePeer

\* the remote sends a frame
RemoteSend ==
    /\ p_conn = "open"
    /\ p_wire = <<>>
    /\ p_remote.hs
    /\ p_remote.frames < MaxFrames
    /\ \E frame \in PeerFrames : Arrive(frame, [p_remote EXCEPT !.frames = @ + 1])
    /\ UNCHANGED <<flags, have, p_lock, p_conn, p_out, keepvars, readvars, c_pc, resp, fvars>>
    /\ UNCHANGED OutsidePeer

\* the rest of what is in flight arrives
Deliver ==
    /\ p_wire # <<>>
    /\ p_conn # "reset"
    /\ p_in' = p_in \o p_wire
    /\ p_wire' = <<>>
    /\ UNCHANGED <<flags, have, p_lock, p_conn, p_out, p_remote, keepvars, readvars, c_pc, resp, fvars>>
    /\ UNCHANGED OutsidePeer

\* the remote closes the connection after what it sent, or the connection is
\* reset: a reset loses what was in flight and what was not read
RemoteClose ==
    /\ p_conn = "open"
    /\ \/ /\ p_wire = <<>>
          /\ p_conn' = "eof"
          /\ UNCHANGED <<p_wire, p_in>>
       \/ /\ p_conn' = "reset"
          /\ p_wire' = <<>>
          /\ p_in' = <<>>
    /\ UNCHANGED <<flags, have, p_lock, p_out, p_remote, keepvars, readvars, c_pc, resp, fvars>>
    /\ UNCHANGED OutsidePeer

PeerNext ==
    \/ KeepaliveTick \/ KeepaliveWrite
    \/ ReaderTryRead \/ ReaderReadBody \/ ReaderBodyMore
    \/ DispatchUnimplemented \/ DispatchUnknown \/ DispatchHave \/ DispatchBitfield
    \/ DispatchRequest
    \/ \E i \in 1..Len(resp) : RespLoad(i) \/ RespLoaded(i) \/ RespSend(i) \/ RespTryWrite(i)
    \/ CallerSend \/ CallerRecv
    \/ RemoteHandshake \/ RemoteSend \/ Deliver \/ RemoteClose

(* the session once the handshake is exchanged *)

\* the caller's exchange is over and its guard dropped; the tasks have not
\* run yet and the remote has sent nothing after its handshake
SessionInit ==
    /\ PeerStore
    /\ am_choking = TRUE
    /\ am_interested = FALSE
    /\ peer_choking = TRUE
    /\ peer_interested = FALSE
    /\ have = [k \in 1..PieceCount(PeerFileSize, PeerPieceSize) |-> FALSE]
    /\ p_lock = NoTask
    /\ p_conn = "open"
    /\ p_wire = <<>>
    /\ p_in = <<>>
    /\ p_out = Written(<<>>, Caller, to_bytes(HandshakeDefault(TEST_INFO_HASH)))
    /\ p_remote = [hs |-> TRUE, frames |-> 0, splits |-> 0]
    /\ k_pc = "tick"
    /\ k_ticks = 0
    /\ r_pc = "read_len"
    /\ r_size = 0
    /\ r_buf = <<>>
    /\ c_pc = "done"
    /\ resp = <<>>

\* the steps of the keepalive task
KeepaliveStep == KeepaliveTick \/ KeepaliveWrite

\* the steps of the listen_and_dispatch task
ReaderStep ==
    \/ ReaderTryRead \/ ReaderReadBody \/ ReaderBodyMore
    \/ DispatchUnimplemented \/ DispatchUnknown \/ DispatchHave \/ DispatchBitfield
    \/ DispatchRequest

\* the steps of the tasks request has spawned
ResponderStep ==
    \E i \in 1..Len(resp) : RespLoad(i) \/ RespLoaded(i) \/ RespSend(i) \/ RespTryWrite(i)

SessionNext ==
    \/ KeepaliveStep \/ ReaderStep \/ ResponderStep
    \/ RemoteSend \/ Deliver \/ RemoteClose

\* the caller lets go of the Arc that Peer::new returned: the clones the two
\* spawned tasks and the responders hold keep the Peer alive
CallerDrop ==
    /\ c_pc = "done"
    /\ c_pc' = "dropped"
    /\ UNCHANGED <<flags, have, p_lock, streamvars, keepvars, readvars, resp, fvars>>
    /\ UNCHANGED OutsidePeer

DropNext == SessionNext \/ CallerDrop

(* dispatch in isolation: the reader holds a message it has read, over a    *)
(* have vector of any length                                                *)

\* the bytes a bitfield payload is made of
BitfieldBytes == {0, 128, 165, 255}

\* the messages dispatched: every id from 0 to 9 without payload, have of 0, 1
\* and MaxPieces, a have of 3 bytes, requests, and the bitfields
DispatchMessages ==
    { <<id>> : id \in 0..9 }
    \cup { <<4>> \o ToBe32(i) : i \in {0, 1, MaxPieces} }
    \cup { <<4, 0, 0, 1>> }
    \cup { <<6>> \o RequestPayload(0, 0, 2), <<6>> \o RequestPayload(1, 0, 1) }
    \cup { <<5>> \o b : b \in SeqsUpTo(BitfieldBytes, MaxPayload) }

DispatchInit ==
    \E pieces \in 0..MaxPieces, msg \in DispatchMessages :
       /\ PeerStore
       /\ am_choking = TRUE
       /\ am_interested = FALSE
       /\ peer_choking = TRUE
       /\ peer_interested = FALSE
       /\ have \in { [k \in 1..pieces |-> b] : b \in BOOLEAN }
       /\ p_lock = NoTask
       /\ p_conn = "open"
       /\ p_wire = <<>>
       /\ p_in = <<>>
       /\ p_out = <<>>
       /\ p_remote = [hs |-> TRUE, frames |-> 1, splits |-> 0]
       /\ k_pc = "tick"
       /\ k_ticks = 0
       /\ r_pc = "dispatch"
       /\ r_size = Len(msg)
       /\ r_buf = msg
       /\ c_pc = "done"
       /\ resp = <<>>

DispatchNext ==
    \/ DispatchUnimplemented \/ DispatchUnknown \/ DispatchHave \/ DispatchBitfield
    \/ DispatchRequest

----------------------------------------------------------------------------
(* The handshake value and its wire form: Handshake::new, to_bytes and      *)
(* is_header_valid of src/src/handshake.rs, applied to a value and to an    *)
(* array of HANDSHAKE_SIZE bytes.                                           *)

\* Handshake::new(input)
HandshakeNew(input) ==
    [pstr_len |-> At(input, 0),
     protocol |-> Slice(input, 1, 20),
     reserved |-> Slice(input, 20, 28),
     info_hash |-> Slice(input, 28, 48),
     peer_id |-> Slice(input, 48, Len(input))]

\* a header check that looks at the length byte only
is_header_valid_LengthOnly(hs) == hs.pstr_len = PSTR_LEN

\* is_header_valid(hs)
is_header_valid(hs) == hs.pstr_len = PSTR_LEN /\ hs.protocol = PSTR

\* handshake values: the default one and values that differ from it in any
\* of the fields; arrays: those of the tests (a good handshake, 68 bytes
\* that are all 19), and others that differ in the head or in the rest
HandshakeInit ==
    /\ hs_value \in [pstr_len : {PSTR_LEN, 0, 255},
                     protocol : {PSTR, [k \in 1..PSTR_LEN |-> PSTR_LEN]},
                     reserved : {Zeros(RESERVED_LEN), [k \in 1..RESERVED_LEN |-> k]},
                     info_hash : {Zeros(INFO_HASH_LEN), TEST_INFO_HASH},
                     peer_id : {TORRENT_RS_PEER_ID, REMOTE_PEER_ID}]
    /\ hs_bytes \in { head \o rest :
                        head \in {<<PSTR_LEN>> \o PSTR, <<PSTR_LEN - 1>> \o PSTR,
                                  [k \in 1..(1 + PSTR_LEN) |-> PSTR_LEN], Zeros(1 + PSTR_LEN)},
                        rest \in {Zeros(HANDSHAKE_SIZE - 1 - PSTR_LEN),
                                  [k \in 1..(HANDSHAKE_SIZE - 1 - PSTR_LEN) |-> PSTR_LEN],
                                  [k \in 1..(HANDSHAKE_SIZE - 1 - PSTR_LEN) |-> 100 + k]} }
    /\ hs_ret = [op |-> "none", val |-> FALSE]

\* hs = Handshake::new(&bytes)
HandshakeNewStep ==
    /\ hs_value' = HandshakeNew(hs_bytes)
    /\ hs_ret' = [op |-> "new", val |-> FALSE]
    /\ UNCHANGED hs_bytes
    /\ UNCHANGED OutsideHandshake

\* bytes = hs.to_bytes()
ToBytesStep ==
    /\ hs_bytes' = to_bytes(hs_value)
    /\ hs_ret' = [op |-> "to_bytes", val |-> FALSE]
    /\ UNCHANGED hs_value
    /\ UNCHANGED OutsideHandshake

\* is_header_valid(&hs)
IsHeaderValidStep ==
    /\ hs_ret' = [op |-> "is_header_valid", val |-> is_header_valid(hs_value)]
    /\ UNCHANGED <<hs_value, hs_bytes>>
    /\ UNCHANGED OutsideHandshake

HandshakeNext == HandshakeNewStep \/ ToBytesStep \/ IsHeaderValidStep

----------------------------------------------------------------------------
(* The metainfo decoder: MetaInfo and Info of src/src/decode_torrent.rs,    *)
(* and Peer::new on what it returns.  A dictionary is the sequence of its   *)
(* [key, val] pairs in the order of the file, which is the ascending order  *)
(* of the keys (the bencode library refuses any other); a byte string is    *)
(* its bytes, an integer the text of its digits, as the library hands them  *)
(* over; a pair holds its value in val, or in dict when it is a dictionary. *)

MaxHashes == 2      \* a pieces string holds at most this many 20-byte hashes

K_CREATED_BY == <<99, 114, 101, 97, 116, 101, 100, 32, 98, 121>>
K_CREATION_DATE == <<99, 114, 101, 97, 116, 105, 111, 110, 32, 100, 97, 116, 101>>
K_HTTPSEEDS == <<104, 116, 116, 112, 115, 101, 101, 100, 115>>
K_MD5SUM == <<109, 100, 53, 115, 117, 109>>

\* format!("{:02x}", c) of every byte, collected
RECURSIVE bytes_to_hash(_)
bytes_to_hash(hash) ==
    IF hash = <<>> THEN <<>>
    ELSE LET x(n) == IF n < 10 THEN CH_0 + n ELSE 87 + n
         IN  <<x(Head(hash) \div 16), x(Head(hash) % 16)>> \o bytes_to_hash(Tail(hash))

\* pieces_to_hash: the assert!, then one hash text per chunk of 20 bytes
pieces_to_hash(input) ==
    IF Len(input) % 20 # 0 THEN [kind |-> "panic", val |-> <<>>]
    ELSE [kind |-> "ok",
          val |-> [k \in 1..(Len(input) \div 20) |->
                     bytes_to_hash(Slice(input, 20 * (k - 1), 20 * k))]]

\* what a decode ends with: Ok(val) (kind "ok"), Err(err about field) (kind
\* "err"), or a panic
Decoded(kind, err, field, val) == [kind |-> kind, err |-> err, field |-> field, val |-> val]

\* Info::decode_bencode_object: the while loop from pair i on with the
\* locals acc, then the four ok_or_else and the Ok
RECURSIVE InfoDecodePairs(_, _, _)
InfoDecodePairs(dict, i, acc) ==
    IF i > Len(dict)
    THEN IF acc.file_length = None THEN Decoded("err", "MissingField", "file_length", <<>>)
         ELSE IF acc.name = None THEN Decoded("err", "MissingField", "name", <<>>)
         ELSE IF acc.piece_length = None
              THEN Decoded("err", "MissingField", "piece_length", <<>>)
         ELSE IF acc.pieces = None THEN Decoded("err", "MissingField", "pieces", <<>>)
         ELSE Decoded("ok", "", <<>>, [file_length |-> Unwrap(acc.file_length),
                                       name |-> Unwrap(acc.name),
                                       piece_length |-> Unwrap(acc.piece_length),
                                       pieces |-> Unwrap(acc.pieces),
                                       md5sum |-> acc.md5sum])
    ELSE LET key == dict[i].key
             value == dict[i].val
         IN  CASE key = K_LENGTH ->
                    InfoDecodePairs(dict, i + 1, [acc EXCEPT !.file_length = Some(value)])
               [] key = K_NAME ->
                    InfoDecodePairs(dict, i + 1, [acc EXCEPT !.name = Some(value)])
               [] key = K_PIECE_LENGTH ->
                    InfoDecodePairs(dict, i + 1, [acc EXCEPT !.piece_length = Some(value)])
               [] key = K_PIECES ->
                    LET hashes == pieces_to_hash(value)
                    IN  IF hashes.kind = "panic" THEN Decoded("panic", "", <<>>, <<>>)
                        ELSE InfoDecodePairs(dict, i + 1,
                                             [acc EXCEPT !.pieces = Some(hashes.val)])
               [] key = K_MD5SUM ->
                    InfoDecodePairs(dict, i + 1, [acc EXCEPT !.md5sum = Some(value)])
               [] OTHER -> Decoded("err", "UnexpectedField", key, <<>>)

\* the decoder of Info, were it to pass over the keys it does not know
InfoDecode_SkipUnknown(dict) ==
    InfoDecodePairs(SelectSeq(dict, LAMBDA p : p.key \in {K_LENGTH, K_NAME, K_PIECE_LENGTH,
                                                          K_PIECES, K_MD5SUM}),
                    1, [file_length |-> None, name |-> None, piece_length |-> None,
                        pieces |-> None, md5sum |-> None])

InfoDecode(dict) ==
    InfoDecodePairs(dict, 1, [file_length |-> None, name |-> None, piece_length |-> None,
                              pieces |-> None, md5sum |-> None])

\* MetaInfo::decode_bencode_object, likewise; .map(Some)? hands on what the
\* decoding of info ended with
RECURSIVE MetaInfoDecodePairs(_, _, _)
MetaInfoDecodePairs(dict, i, acc) ==
    IF i > Len(dict)
    THEN IF acc.announce = None THEN Decoded("err", "MissingField", "announce", <<>>)
         ELSE IF acc.info = None THEN Decoded("err", "MissingField", "info", <<>>)
         ELSE Decoded("ok", "", <<>>, [announce |-> Unwrap(acc.announce),
                                       info |-> Unwrap(acc.info),
                                       comment |-> acc.comment,
                                       created_by |-> acc.created_by,
                                       creation_date |-> acc.creation_date,
                                       http_seeds |-> acc.http_seeds,
                                       url_list |-> acc.url_list])
    ELSE LET key == dict[i].key
             value == dict[i].val
         IN  CASE key = K_ANNOUNCE ->
                    MetaInfoDecodePairs(dict, i + 1, [acc EXCEPT !.announce = Some(value)])
               [] key = K_COMMENT ->
                    MetaInfoDecodePairs(dict, i + 1, [acc EXCEPT !.comment = Some(value)])
               [] key = K_CREATION_DATE ->
                    MetaInfoDecodePairs(dict, i + 1,
                                        [acc EXCEPT !.creation_date = Some(value)])
               [] key = K_HTTPSEEDS ->
                    MetaInfoDecodePairs(dict, i + 1, [acc EXCEPT !.http_seeds = Some(value)])
               [] key = K_INFO ->
                    LET info == InfoDecode(dict[i].dict)
                    IN  IF info.kind = "ok"
                        THEN MetaInfoDecodePairs(dict, i + 1,
                                                 [acc EXCEPT !.info = Some(info.val)])
                        ELSE info
               [] key = K_CREATED_BY ->
                    MetaInfoDecodePairs(dict, i + 1, [acc EXCEPT !.created_by = Some(value)])
               [] key = K_URL_LIST ->
                    MetaInfoDecodePairs(dict, i + 1, [acc EXCEPT !.url_list = Some(value)])
               [] OTHER -> Decoded("err", "UnexpectedField", key, <<>>)

MetaInfoDecode(dict) ==
    MetaInfoDecodePairs(dict, 1, [announce |-> None, info |-> None, comment |-> None,
                                  created_by |-> None, creation_date |-> None,
                                  http_seeds |-> None, url_list |-> None])

\* str::parse::<usize>: None for a text that is not a run of digits
ParseUsize(text) ==
    IF text = <<>> \/ \E k \in 1..Len(text) : text[k] < CH_0 \/ text[k] > CH_9 THEN None
    ELSE bytes_to_num(text)

\* ---- the metainfo files decoded

\* a pair whose value is a byte string or an integer (val), or a dictionary
\* (dict)
Pair(key, val, dict) == [key |-> key, val |-> val, dict |-> dict]

\* the pairs of all whose key is in keys, in their order
SubDict(all, keys) == SelectSeq(all, LAMBDA p : p.key \in keys)

\* info dictionaries: any choice of the five keys and of "files" (a key of
\* the multi-file form), a length of 3 or 4, a piece length of 0 or 2, and a
\* pieces string of 0..MaxHashes hashes, or of one byte less than that
InfoDicts ==
    { SubDict(<<Pair(K_FILES, <<>>, <<>>), Pair(K_LENGTH, Digits(length), <<>>),
                Pair(K_MD5SUM, TEXT_X, <<>>), Pair(K_NAME, TEXT_X, <<>>),
                Pair(K_PIECE_LENGTH, Digits(piece_length), <<>>),
                Pair(K_PIECES, [k \in 1..n |-> k], <<>>)>>, keys) :
        keys \in SUBSET {K_FILES, K_LENGTH, K_MD5SUM, K_NAME, K_PIECE_LENGTH, K_PIECES},
        length \in {3, 4},
        piece_length \in {0, 2},
        n \in {20 * k : k \in 0..MaxHashes} \cup {20 * MaxHashes - 1} }

\* metainfo files: any choice of "announce", "comment", "info", "url-list"
\* and of "path" (a key the decoder does not know)
MetaDocs ==
    { SubDict(<<Pair(K_ANNOUNCE, TEXT_X, <<>>), Pair(K_COMMENT, TEXT_E, <<>>),
                Pair(K_INFO, <<>>, info), Pair(K_PATH, TEXT_X, <<>>),
                Pair(K_URL_LIST, TEXT_X, <<>>)>>, keys) :
        keys \in SUBSET {K_ANNOUNCE, K_COMMENT, K_INFO, K_PATH, K_URL_LIST},
        info \in InfoDicts }

NoMeta == Decoded("none", "", <<>>, <<>>)

\* a metainfo file, not decoded yet; the file the torrent names is absent,
\* out of reach, or there with 3 bytes
MetaInit ==
    /\ m_doc \in MetaDocs
    /\ m_ret = NoMeta
    /\ d_file \in {Absent, NoAccess, RegularFile(DiskFile(3))}
    /\ f_pc = "unbuilt"
    /\ f_piece_size = 0
    /\ f_pieces = <<>>
    /\ f_ret = NoCall

\* MetaInfo::from_bencode on the file
DecodeMetaInfo ==
    /\ m_ret = NoMeta
    /\ m_ret' = MetaInfoDecode(m_doc)
    /\ UNCHANGED <<m_doc, fvars, pvars>>
    /\ UNCHANGED OutsideMeta

\* a Peer value that has the remote unchoked from the start
PeerNewStep_Unchoked(pieces) ==
    /\ am_choking' = TRUE
    /\ am_interested' = FALSE
    /\ peer_choking' = FALSE
    /\ peer_interested' = FALSE
    /\ have' = [k \in 1..pieces |-> FALSE]
    /\ p_lock' = NoTask
    /\ p_conn' = "open"
    /\ p_wire' = <<>>
    /\ p_in' = <<>>
    /\ p_out' = <<>>
    /\ p_remote' = [hs |-> FALSE, frames |-> 0, splits |-> 0]
    /\ k_pc' = "tick"
    /\ k_ticks' = 0
    /\ r_pc' = "read_len"
    /\ r_size' = 0
    /\ r_buf' = <<>>
    /\ c_pc' = "new"
    /\ resp' = <<>>

\* the Peer value of Peer::new and its two spawns, as PeerNew, reached by a
\* step
PeerNewStep(pieces) ==
    /\ am_choking' = TRUE
    /\ am_interested' = FALSE
    /\ peer_choking' = TRUE
    /\ peer_interested' = FALSE
    /\ have' = [k \in 1..pieces |-> FALSE]
    /\ p_lock' = NoTask
    /\ p_conn' = "open"
    /\ p_wire' = <<>>
    /\ p_in' = <<>>
    /\ p_out' = <<>>
    /\ p_remote' = [hs |-> FALSE, frames |-> 0, splits |-> 0]
    /\ k_pc' = "tick"
    /\ k_ticks' = 0
    /\ r_pc' = "read_len"
    /\ r_size' = 0
    /\ r_buf' = <<>>
    /\ c_pc' = "new"
    /\ resp' = <<>>

\* Peer::new(ip, port, torrent) on the decoded metainfo: the two parse, then
\* FileEntity::new (as FileEntityNew, on the parsed sizes), then the connect
\* and the Peer value.  c_pc "failed": Peer::new returned an Err or panicked
\* and there is no session.
MetaPeerNew ==
    /\ m_ret.kind = "ok"
    /\ f_pc = "unbuilt"
    /\ c_pc = "new"
    /\ LET torrent == m_ret.val
           piece_length == ParseUsize(torrent.info.piece_length)
           file_length == ParseUsize(torrent.info.file_length)
           nopeer == /\ c_pc' = "failed"
                     /\ UNCHANGED <<flags, have, p_lock, streamvars, keepvars, readvars, resp>>
       IN  IF piece_length = None \/ file_length = None
           THEN \* .expect(..)
                /\ nopeer
                /\ UNCHANGED fvars
           ELSE LET piece_size == Unwrap(piece_length)
                    size == Unwrap(file_length)
                    call(kind, val) == Call("new", 0, 0, 0, <<piece_size, size>>, kind, val)
                IN  IF d_file.kind = "noaccess"
                    THEN /\ f_pc' = "failed"
                         /\ f_ret' = call("PermissionDenied", <<>>)
                         /\ UNCHANGED <<d_file, f_piece_size, f_pieces>>
                         /\ nopeer
                    ELSE IF d_file.kind = "file" /\ Len(d_file.bytes) # size
                    THEN /\ f_pc' = "failed"
                         /\ f_ret' = call("AlreadyExists", <<>>)
                         /\ UNCHANGED <<d_file, f_piece_size, f_pieces>>
                         /\ nopeer
                    ELSE /\ d_file' = IF d_file.kind = "absent" THEN Fallocate(size) ELSE d_file
                         /\ IF piece_size = 0
                            THEN /\ f_pc' = "panicked"
                                 /\ f_ret' = call("panic", <<>>)
                                 /\ UNCHANGED <<f_piece_size, f_pieces>>
                                 /\ nopeer
                            ELSE /\ f_pc' = "ready"
                                 /\ f_piece_size' = piece_size
                                 /\ f_pieces' = [k \in 1..PieceCount(size, piece_size) |-> None]
                                 /\ f_ret' = call("ok", <<>>)
                                 /\ \/ \* TcpStream::connect(..).await? fails
                                       nopeer
                                    \/ PeerNewStep(Len(torrent.info.pieces))
    /\ UNCHANGED <<m_doc, m_ret>>
    /\ UNCHANGED OutsideMeta

MetaNext == DecodeMetaInfo \/ MetaPeerNew

----------------------------------------------------------------------------
(* Specifications: one per subsystem, the others at rest *)

TrackerIdle == UdpConnectionNew(0)

FileIdle ==
    /\ d_file = Absent
    /\ f_pc = "unbuilt"
    /\ f_piece_size = 0
    /\ f_pieces = <<>>
    /\ f_ret = NoCall

HashIdle ==
    /\ h_doc = [pre |-> <<>>, info |-> <<>>, post |-> <<>>]
    /\ h_ret = NoHash

PeerIdle == PeerNew(0)

MetaIdle ==
    /\ m_doc = <<>>
    /\ m_ret = NoMeta

HandshakeIdle ==
    /\ hs_value = HandshakeDefault(Zeros(INFO_HASH_LEN))
    /\ hs_bytes = Zeros(HANDSHAKE_SIZE)
    /\ hs_ret = [op |-> "none", val |-> FALSE]

vars == <<tvars, fvars, hvars, pvars, mvars, xvars>>

InitTracker == TrackerInit /\ MetaIdle /\ HandshakeIdle /\ FileIdle /\ HashIdle /\ PeerIdle
SpecTracker == InitTracker /\ [][TrackerNext]_vars

InitFile == FileInit /\ MetaIdle /\ HandshakeIdle /\ TrackerIdle /\ HashIdle /\ PeerIdle
SpecFile == InitFile /\ [][FileNext]_vars

InitHash == HashInit /\ MetaIdle /\ HandshakeIdle /\ TrackerIdle /\ FileIdle /\ PeerIdle
SpecHash == InitHash /\ [][HashNext]_vars

InitPeer == PeerInit /\ TrackerIdle /\ HashIdle /\ MetaIdle /\ HandshakeIdle
SpecPeer == InitPeer /\ [][PeerNext]_vars

InitSession == SessionInit /\ TrackerIdle /\ HashIdle /\ MetaIdle /\ HandshakeIdle
SpecSession == InitSession /\ [][SessionNext]_vars

\* the three tasks of a session are scheduled: a task that can take a step
\* takes one
SpecSessionFair ==
    /\ SpecSession
    /\ WF_vars(KeepaliveStep)
    /\ WF_vars(ReaderStep)
    /\ WF_vars(ResponderStep)

SpecDrop == InitSession /\ [][DropNext]_vars

InitDispatch == DispatchInit /\ TrackerIdle /\ HashIdle /\ MetaIdle /\ HandshakeIdle
SpecDispatch == InitDispatch /\ [][DispatchNext]_vars

InitMeta == MetaInit /\ TrackerIdle /\ HashIdle /\ PeerIdle /\ HandshakeIdle
SpecMeta == InitMeta /\ [][MetaNext]_vars

InitHandshake ==
    HandshakeInit /\ TrackerIdle /\ FileIdle /\ HashIdle /\ PeerIdle /\ MetaIdle
SpecHandshake == InitHandshake /\ [][HandshakeNext]_vars

----------------------------------------------------------------------------
(* Claims *)

\* C1: a block is written to the stream in answer to a request only in a
\* state where am_choking is false; while am_choking is true, as it is from
\* the start, no responder writes.
C1_ServedOnlyWhenUnchoked ==
    [][ (p_out' # p_out /\ p_out'[Len(p_out')].by.task = "responder") => ~am_choking ]_vars

\* a task of the session is suspended at an await with the lock in its hands:
\* the reader in read_exact, a responder in the read of the file
SuspendedHoldingLock ==
    \/ r_pc = "body" /\ p_lock = Reader
    \/ \E i \in 1..Len(resp) : resp[i].pc = "loading" /\ p_lock = Responder(i)

\* C2: no task of the session is ever suspended at an await while it holds
\* the session's lock.
C2_NoLockAcrossAwait == ~SuspendedHoldingLock

\* C3: the reader takes no inbound byte off the stream before the caller's
\* handshake exchange is over: whatever listen_and_dispatch reads, it reads
\* after the 68 bytes of the remote's handshake were read by the caller.
C3_NoReadBeforeHandshake ==
    [][ ((ReaderTryRead \/ ReaderReadBody \/ ReaderBodyMore) /\ p_in' # p_in)
            => c_pc = "done" ]_vars

\* C4: a bitfield payload b of at least ceil(N/8) bytes leaves, for every
\* i < N, have[i] true exactly when bit 7 - i mod 8 of b[i div 8] is set.
C4_BitfieldBitExact ==
    [][ (DispatchBitfield /\ Len(have) <= 8 * Len(Tail(r_buf)))
            => /\ r_pc' = "read_len"
               /\ \A i \in 0..(Len(have) - 1) :
                    have'[i + 1] = Bit(At(Tail(r_buf), i \div 8), 7 - (i % 8)) ]_vars

\* C5: for every valid metainfo file, the bytes get_info_hash feeds to SHA-1
\* are exactly the info value of the file, from its opening d to the e that
\* closes it.
C5_HashedRangeIsInfoValue ==
    h_ret # NoHash => h_ret = [kind |-> "ok", buf |-> h_doc.info]

\* the size the piece at index has in a file of the store's size
ActualSize(index) == Min(f_piece_size, Len(d_file.bytes) - index * f_piece_size)

\* the bytes of piece index before a call: its buffer if resident, else its
\* span of the backing file
BytesBefore(index) ==
    IF IsSome(At(f_pieces, index)) THEN Unwrap(At(f_pieces, index))
    ELSE Slice(d_file.bytes, index * f_piece_size, index * f_piece_size + ActualSize(index))

\* C6: after write_sub_piece(i, off, block) with off + len(block) within
\* piece i, the resident buffer of piece i holds block at [off, off + len)
\* and every other byte of it is as before (the file's if the piece was not
\* resident); every other piece is unchanged.
C6_WriteSubPieceFrame ==
    [][ LET c == f_ret'
            before == BytesBefore(c.index)
        IN  ( /\ f_pc = "ready"
              /\ c.op = "write_sub_piece"
              /\ c.index < Len(f_pieces)
              /\ c.offset + c.length <= ActualSize(c.index) )
            => /\ f_pc' = "ready"
               /\ IsSome(At(f_pieces', c.index))
               /\ LET after == Unwrap(At(f_pieces', c.index))
                  IN  /\ Len(after) = Len(before)
                      /\ \A k \in 1..Len(after) :
                           after[k] = IF k > c.offset /\ k <= c.offset + c.length
                                      THEN c.data[k - c.offset] ELSE before[k]
               /\ \A j \in 0..(Len(f_pieces) - 1) :
                    j # c.index => At(f_pieces', j) = At(f_pieces, j)
      ]_vars

\* C7: load_piece(i) on a non-resident piece installs a buffer of length
\* min(P, S - i*P): the last piece of a file whose size is no multiple of P
\* is sized S - (N-1)*P.
C7_LoadPieceActualSize ==
    [][ LET c == f_ret'
        IN  ( /\ f_pc = "ready"
              /\ c.op = "load_piece"
              /\ c.index < Len(f_pieces)
              /\ ~IsSome(At(f_pieces, c.index)) )
            => /\ f_pc' = "ready"
               /\ IsSome(At(f_pieces', c.index))
               /\ Len(Unwrap(At(f_pieces', c.index))) = ActualSize(c.index)
      ]_vars

\* C8: a connect reply whose action is not 0 or whose transaction id is not
\* the request's makes connect fail with a ProtocolViolation error value and
\* leaves the cached ids alone; a matching reply's connection id is cached,
\* and is then not zero.
C8_ConnectMismatchIsProtocolViolation ==
    [][ LET r == t_resp'
        IN  r.kind = "connect" =>
              IF r.action # 0 \/ r.tid # r.sent_tid
              THEN /\ t_ret' = [op |-> "connect", kind |-> "err", val |-> "ProtocolViolation"]
                   /\ UNCHANGED <<t_cid, t_tid>>
              ELSE t_ret'.kind = "ok" => (t_cid' = r.cid /\ t_cid' # Zeros(8))
      ]_vars

\* C9: whatever announce returns successfully has action 1 and the session's
\* transaction id.
C9_AnnounceReplyMatches ==
    (t_ret.op = "announce" /\ t_ret.kind = "ok")
        => (t_ret.val.action = 1 /\ t_ret.val.tid = t_tid)

\* the peer a 6-byte record stands for: address from bytes 0..4, port from
\* bytes 4..6, big-endian
RecordPeer(rec) == << <<rec[1], rec[2], rec[3], rec[4]>>, rec[5] * 256 + rec[6] >>

\* the first k record slots of a reply (a slot the reply did not fill is
\* zero), as peers, without the zero peers
RECURSIVE WantedPeers(_, _, _)
WantedPeers(records, j, k) ==
    IF j > k THEN <<>>
    ELSE LET p == IF j <= Len(records) THEN RecordPeer(records[j]) ELSE ZeroPeer
         IN  (IF p = ZeroPeer THEN <<>> ELSE <<p>>) \o WantedPeers(records, j + 1, k)

\* C10: an announce with num_want = k > 0 returns the first k record slots of
\* the reply, decoded, in wire order, without the records 0.0.0.0:0; no peer
\* returned is 0.0.0.0:0 and at most k are returned.
C10_PeerListDecoded ==
    (t_ret.op = "announce" /\ t_ret.kind = "ok" /\ t_want > 0)
        => /\ IsSome(t_ret.val.peers)
           /\ LET peers == Unwrap(t_ret.val.peers)
              IN  /\ peers = WantedPeers(t_resp.records, 1, t_want)
                  /\ Len(peers) <= t_want
                  /\ \A k \in 1..Len(peers) : peers[k] # ZeroPeer

\* C10's case: two peers wanted, the reply holds one record, 0.0.0.0:6881,
\* which is returned alone
C10_Witness ==
    /\ t_ret.op = "announce" /\ t_ret.kind = "ok" /\ t_want = 2
    /\ t_resp.records = << <<0, 0, 0, 0, 26, 225>> >>
    /\ t_ret.val.peers = Some(<< << <<0, 0, 0, 0>>, 6881 >> >>)

\* the flags a control message of this id leaves: choke and unchoke set
\* peer_choking, interested and not_interested set peer_interested
FlagsAfterControl(id) ==
    <<am_choking, am_interested,
      IF id = 0 THEN TRUE ELSE IF id = 1 THEN FALSE ELSE peer_choking,
      IF id = 2 THEN TRUE ELSE IF id = 3 THEN FALSE ELSE peer_interested>>

\* C11: after the reader handles choke, unchoke, interested or not_interested
\* the flag of the message has its new value, the other flags and the have
\* vector are as before, and the reader goes on to the next message.
C11_ControlMessagesSetPeerFlags ==
    [][ (r_pc = "dispatch" /\ r_buf[1] \in 0..3 /\ r_pc' # r_pc)
            => /\ flags' = FlagsAfterControl(r_buf[1])
               /\ have' = have
               /\ r_pc' = "read_len" ]_vars

\* C12: a have(i) with i < N sets have[i], leaves every other entry, the
\* length of the vector and the four flags as they were, and clears no entry.
C12_HaveSetsOneEntry ==
    [][ (DispatchHave /\ Len(r_buf) = 5 /\ FromBe32(Tail(r_buf)) < Len(have))
            => /\ r_pc' = "read_len"
               /\ Len(have') = Len(have)
               /\ \A k \in 1..Len(have) :
                    have'[k] = (k = FromBe32(Tail(r_buf)) + 1 \/ have[k])
               /\ flags' = flags ]_vars

\* C12's case: have(1) was handled over a vector of three entries, all clear
\* before: the second is set, the two others are still clear
C12_Witness ==
    /\ r_pc = "read_len"
    /\ r_buf = <<>>
    /\ have = <<FALSE, TRUE, FALSE>>

\* C13: with the three tasks scheduled, the keepalive task does not wait for
\* the lock for ever: every tick of its timer is followed by the task having
\* had the lock and tried its write, after which it waits for the next tick,
\* has returned on a write error, or has ended on a write cut short.
C13_KeepaliveProgress ==
    (k_pc = "write") ~> (k_pc = "tick" \/ k_pc = "done" \/ k_pc = "panicked")

\* C14: once the caller has dropped the handle Peer::new gave it, no task
\* that was suspended at an await comes back to the stream: the keepalive
\* task writes nothing, the reader reads nothing, and only a responder that
\* was in its write loop when the handle was dropped still writes.
C14_DropStopsTasks ==
    [][ c_pc = "dropped"
            => /\ ~(KeepaliveWrite /\ p_out' # p_out)
               /\ ~((ReaderTryRead \/ ReaderReadBody \/ ReaderBodyMore) /\ p_in' # p_in)
               /\ \A i \in 1..Len(resp) : ~RespSend(i) ]_vars

\* C15: with the three tasks scheduled, once the remote has dropped the
\* connection (the stream has ended: reads find its end or a reset) the
\* reader task ends: it does not go round its loop on the closed stream.
C15_ReaderEndsOnClose ==
    StreamEnded ~> (r_pc = "done" \/ r_pc = "panicked")

\* the piece message that answers the request of responder i
PieceFrame(i) ==
    Frame(7, ToBe32(resp[i].index) \o ToBe32(resp[i].begin)
               \o sub_piece(f_pieces, resp[i].index, resp[i].begin, resp[i].length).bytes)

\* C16: what a responder has written to the stream once it is done is one
\* well-formed frame, the piece message (length, id 7, index, begin, block)
\* that answers its request, never the bare bytes of the block.
C16_ReplyIsPieceFrame ==
    \A k \in 1..Len(p_out) :
        (p_out[k].by.task = "responder" /\ resp[p_out[k].by.id].pc = "done")
            => p_out[k].bytes = PieceFrame(p_out[k].by.id)

\* the reader is about to dispatch a bitfield of fewer than ceil(N/8) bytes
UndersizeBitfield ==
    r_pc = "dispatch" /\ r_buf[1] = 5 /\ 8 * Len(Tail(r_buf)) < Len(have)

\* every task of the session has ended
SessionStopped ==
    /\ r_pc \in {"done", "panicked"}
    /\ k_pc \in {"done", "panicked"}
    /\ \A i \in 1..Len(resp) : resp[i].pc \in {"done", "panicked"}

\* C17: a bitfield of fewer than ceil(N/8) bytes writes no entry of the have
\* vector and ends the session: with the tasks scheduled, all of them stop.
C17_UndersizeBitfieldEndsSession ==
    /\ [][ (UndersizeBitfield /\ r_pc' # r_pc) => have' = have ]_vars
    /\ UndersizeBitfield ~> SessionStopped

\* C18: whatever the reader and the responders of a session do in between, a
\* responder that is about to call sub_piece(i, ..) finds piece i resident:
\* the piece its load_piece made resident, or found resident, is still there.
C18_SubPieceOnlyWhenResident ==
    \A i \in 1..Len(resp) :
        resp[i].pc = "send"
            => /\ resp[i].index < Len(f_pieces)
               /\ IsSome(At(f_pieces, resp[i].index))

\* C18's case: two responders of one session are both about to call
\* sub_piece on the piece that the first of them loaded
C18_Witness ==
    /\ Len(resp) = 2
    /\ resp[1].pc = "send"
    /\ resp[2].pc = "send"
    /\ resp[1].index = resp[2].index

\* C19: load_piece on a resident piece changes nothing, so a block written
\* into a piece stays what sub_piece returns: load_piece leaves a resident
\* buffer as it is, a write to a resident piece changes the bytes of its
\* range only and no other piece, and sub_piece returns the bytes of the
\* resident buffer.
C19_LoadPieceKeepsResident ==
    [][ LET c == f_ret'
            resident == c.index < Len(f_pieces) /\ IsSome(At(f_pieces, c.index))
        IN  f_pc = "ready" =>
              /\ (c.op = "load_piece" /\ resident)
                    => (f_pieces' = f_pieces /\ f_pc' = "ready" /\ c.kind = "ok")
              /\ (c.op = "write_sub_piece" /\ resident /\ c.kind = "ok")
                    => /\ Unwrap(At(f_pieces', c.index))
                            = Patch(Unwrap(At(f_pieces, c.index)), c.offset, c.data)
                       /\ \A j \in 0..(Len(f_pieces) - 1) :
                            j # c.index => At(f_pieces', j) = At(f_pieces, j)
              /\ (c.op = "sub_piece" /\ c.kind = "ok")
                    => /\ f_pieces' = f_pieces
                       /\ c.val = Slice(Unwrap(At(f_pieces, c.index)), c.offset,
                                        c.offset + c.length)
      ]_vars

\* C19's case: load_piece has returned on a piece whose resident buffer holds
\* a written block the file does not hold
C19_Witness ==
    /\ f_pc = "ready"
    /\ f_ret.op = "load_piece"
    /\ f_ret.kind = "ok"
    /\ IsSome(At(f_pieces, f_ret.index))
    /\ \E k \in 1..Len(Unwrap(At(f_pieces, f_ret.index))) :
         Unwrap(At(f_pieces, f_ret.index))[k] \in BlockBytes

\* C20: construction over a regular file whose size is not the size asked
\* for fails with AlreadyExists whatever the piece size, 0 included, and
\* leaves the file as it is; over a file of the size asked for it leaves the
\* content as it is and does not fail with AlreadyExists.
C20_SizeMismatchAlreadyExists ==
    [][ LET c == f_ret'
        IN  (f_pc = "unbuilt" /\ c.op = "new" /\ d_file.kind = "file")
              => /\ d_file' = d_file
                 /\ IF Len(d_file.bytes) # c.data[2]
                    THEN c.kind = "AlreadyExists" /\ f_pc' = "failed"
                    ELSE c.kind # "AlreadyExists" /\ (c.data[1] > 0 => c.kind = "ok")
      ]_vars

\* C20's case: construction with piece size 0 over a file of 2 bytes, asked
\* for with another size, has failed with AlreadyExists
C20_Witness ==
    /\ f_pc = "failed"
    /\ f_ret.op = "new"
    /\ f_ret.kind = "AlreadyExists"
    /\ f_ret.data[1] = 0
    /\ d_file = RegularFile(DiskFile(2))

\* ceil(size / piece_size), written without the remainder test of the code
CeilDiv(size, piece_size) == (size + piece_size - 1) \div piece_size

\* C21: a store built with piece size P > 0 and total size S has ceil(S / P)
\* piece slots, every one of them not resident; load_piece and write_sub_piece
\* (and sub_piece) leave the number of slots as it is.
C21_SlotCountIsCeil ==
    [][ /\ (f_pc = "unbuilt" /\ f_pc' = "ready")
            => /\ f_ret'.op = "new"
               /\ f_ret'.data[1] > 0
               /\ Len(f_pieces') = CeilDiv(f_ret'.data[2], f_ret'.data[1])
               /\ \A k \in 1..Len(f_pieces') : f_pieces'[k] = None
        /\ f_pc = "ready" => Len(f_pieces') = Len(f_pieces) ]_vars

\* a store of 5 bytes in pieces of 2 still has its 3 slots after a block was
\* written into its first piece
C21_Witness ==
    /\ f_pc = "ready"
    /\ f_piece_size = 2
    /\ Len(d_file.bytes) = 5
    /\ Len(f_pieces) = 3
    /\ f_ret.op = "write_sub_piece"
    /\ IsSome(f_pieces[1])

\* the value of key in the info dictionary of a metainfo file that has both
InfoValue(doc, key) ==
    LET info == SelectSeq(doc, LAMBDA p : p.key = K_INFO)[1].dict
    IN  SelectSeq(info, LAMBDA p : p.key = key)[1].val

\* C22: for every metainfo the decoder accepts, the pieces string's length L
\* is a multiple of 20 and L / 20 = ceil(file_length / piece_length); hence
\* the have vector of a peer session has as many entries as its piece store
\* has slots.  (Stated for a piece length above 0, where the quotient is
\* defined.)
C22_PiecesMatchLengths ==
    /\ m_ret.kind = "ok"
         => LET L == Len(InfoValue(m_doc, K_PIECES))
                file_length == Unwrap(ParseUsize(InfoValue(m_doc, K_LENGTH)))
                piece_length == Unwrap(ParseUsize(InfoValue(m_doc, K_PIECE_LENGTH)))
            IN  /\ L % 20 = 0
                /\ piece_length > 0 => L \div 20 = CeilDiv(file_length, piece_length)
    /\ (m_ret.kind = "ok" /\ f_pc = "ready" /\ c_pc = "new") => Len(have) = Len(f_pieces)

\* the keys of a dictionary
Keys(dict) == { dict[i].key : i \in 1..Len(dict) }

\* the info dictionaries of a metainfo file (none, or the one under "info")
InfosOf(doc) == { doc[i].dict : i \in { j \in 1..Len(doc) : doc[j].key = K_INFO } }

\* a key the decoder does not recognise, at the top or in the info dictionary
HasUnknownKey(doc) ==
    \/ ~(Keys(doc) \subseteq {K_ANNOUNCE, K_COMMENT, K_CREATED_BY, K_CREATION_DATE,
                              K_HTTPSEEDS, K_INFO, K_URL_LIST})
    \/ \E info \in InfosOf(doc) :
         ~(Keys(info) \subseteq {K_LENGTH, K_NAME, K_PIECE_LENGTH, K_PIECES, K_MD5SUM})

\* a required key that is absent, at the top or in the info dictionary
LacksRequiredKey(doc) ==
    \/ ~({K_ANNOUNCE, K_INFO} \subseteq Keys(doc))
    \/ \E info \in InfosOf(doc) :
         ~({K_LENGTH, K_NAME, K_PIECE_LENGTH, K_PIECES} \subseteq Keys(info))

\* every value is one its field's decoder takes: the pieces string, when
\* there is one, is a whole number of 20-byte hashes
ValuesDecodable(doc) ==
    \A info \in InfosOf(doc) : \A i \in 1..Len(info) :
       info[i].key = K_PIECES => Len(info[i].val) % 20 = 0

C26_NewSessionFlags ==
    (m_ret.kind = "ok" /\ f_pc = "ready" /\ c_pc = "new") =>
      /\ am_choking = TRUE
      /\ am_interested = FALSE
      /\ peer_choking = TRUE
      /\ peer_interested = FALSE
      /\ Len(have) = Len(InfoValue(m_doc, K_PIECES)) \div 20
      /\ \A k \in 1..Len(have) : have[k] = FALSE

\* Peer::new has returned a session for a torrent of two pieces
C26_Witness ==
    /\ m_ret.kind = "ok"
    /\ f_pc = "ready"
    /\ c_pc = "new"
    /\ Len(have) = 2
    /\ Len(f_pieces) = 2

\* C23: encoding a handshake value and decoding the 68 bytes gives the value
\* back, decoding 68 bytes and encoding the value gives the bytes back, and
\* in the wire form pstr_len is byte 0, protocol bytes 1..20, reserved bytes
\* 20..28, info_hash bytes 28..48 and peer_id bytes 48..68.
C23_HandshakeRoundTrip ==
    [][ /\ ToBytesStep
          => /\ Len(hs_bytes') = 68
             /\ HandshakeNew(hs_bytes') = hs_value
             /\ hs_bytes'[1] = hs_value.pstr_len
             /\ \A k \in 1..19 : hs_bytes'[1 + k] = hs_value.protocol[k]
             /\ \A k \in 1..8 : hs_bytes'[20 + k] = hs_value.reserved[k]
             /\ \A k \in 1..20 : hs_bytes'[28 + k] = hs_value.info_hash[k]
             /\ \A k \in 1..20 : hs_bytes'[48 + k] = hs_value.peer_id[k]
        /\ HandshakeNewStep
          => /\ to_bytes(hs_value') = hs_bytes
             /\ Len(hs_value'.protocol) = 19
             /\ Len(hs_value'.reserved) = 8
             /\ Len(hs_value'.info_hash) = 20
             /\ Len(hs_value'.peer_id) = 20 ]_vars

\* a value that is not the default one in any field but the protocol was
\* encoded, and the bytes are not the array the run began with
C23_Witness ==
    /\ hs_ret.op = "to_bytes"
    /\ hs_value.pstr_len = 255
    /\ hs_value.info_hash = TEST_INFO_HASH
    /\ hs_value.peer_id = REMOTE_PEER_ID
    /\ hs_value.reserved # Zeros(RESERVED_LEN)
    /\ hs_bytes[1] = 255
    /\ hs_bytes[68] = REMOTE_PEER_ID[20]

\* C24: a handshake is accepted exactly when its pstr_len is 19 and its
\* protocol is "BitTorrent protocol"; reserved, info_hash and peer_id do not
\* matter; the default handshake, with any info hash, is accepted.
C24_HeaderValidity ==
    /\ hs_ret.op = "is_header_valid"
         => hs_ret.val = ( /\ hs_value.pstr_len = 19
                           /\ hs_value.protocol = <<66, 105, 116, 84, 111, 114, 114, 101, 110,
                                                    116, 32, 112, 114, 111, 116, 111, 99, 111,
                                                    108>> )
    /\ \A hash \in {Zeros(INFO_HASH_LEN), TEST_INFO_HASH} :
         is_header_valid(HandshakeDefault(hash))

\* the 68 bytes of 19 of the test is_header_valid_bad, decoded, were
\* refused: the length byte is right and the protocol is not
C24_Witness ==
    /\ hs_ret.op = "is_header_valid"
    /\ hs_ret.val = FALSE
    /\ hs_value = HandshakeNew([k \in 1..HANDSHAKE_SIZE |-> PSTR_LEN])

\* C27: a received frame of length 0 is a keep-alive: the reader reads no id
\* and no payload for it, dispatches no handler, leaves the flags, the have
\* vector and the piece store as they are, and reads the next 4 inbound bytes
\* as the next frame's length.  So whenever the reader takes bytes off the
\* stream and goes back to reading a length, it has taken the 4 zero bytes of
\* a length prefix, no fewer.
C27_KeepAliveIsFourBytes ==
    [][ (ReaderTryRead /\ r_pc' = "read_len" /\ p_in' # p_in)
          => /\ Len(p_in) >= 4
             /\ SubSeq(p_in, 1, 4) = KeepAliveFrame
             /\ p_in' = Drop(p_in, 4)
             /\ UNCHANGED <<flags, have, fvars, resp, r_buf>> ]_vars

\* C28: however the inbound bytes are split over reads, also with 1 to 3
\* bytes of a length prefix in one read, the reader takes exactly 4 bytes as
\* each length N and the next N bytes as id and payload, so that what it
\* dispatches is what the remote sent.  So the length the reader has taken
\* for a message is always the length prefix of a frame the remote sends.
C28_LengthIsAFramePrefix ==
    r_pc \in {"read_body", "body", "dispatch"}
      => \E frame \in PeerFrames : r_size = FromBe32(SubSeq(frame, 1, 4))

\* the entries of p_out that by has written
EntriesBy(by) == { k \in 1..Len(p_out) : p_out[k].by = by }

\* C29: outbound writes never interleave.  The bytes a responder writes for
\* one reply lie together on the stream, no other writer's bytes between
\* them, and they are the reply's bytes as far as written; from the first
\* byte of its reply to the last the responder holds the session's lock.  A
\* keep-alive is written in one write under the lock: what the keepalive task
\* has put on the stream is whole keep-alives of 4 bytes, but for the one
\* that a short write cut off, after which the task has panicked and writes
\* no more.
C29_WritesDoNotInterleave ==
    /\ \A i \in 1..Len(resp) :
         /\ Cardinality(EntriesBy(Responder(i))) <= 1
         /\ resp[i].pc = "writing"
              => /\ p_lock = Responder(i)
                 /\ \A k \in EntriesBy(Responder(i)) :
                      p_out[k].bytes = SubSeq(resp[i].buf, 1, resp[i].start)
         /\ (resp[i].pc # "writing" /\ p_lock = Responder(i)) => EntriesBy(Responder(i)) = {}
    /\ \A k \in EntriesBy(Keepalive) :
         \/ Len(p_out[k].bytes) % 4 = 0
         \/ /\ k_pc = "panicked"
            /\ \A j \in EntriesBy(Keepalive) : j <= k

\* a responder has written the first byte of its reply and not the second,
\* while the keepalive task is waiting to write
C29_Witness ==
    \E i \in 1..Len(resp) :
       /\ resp[i].pc = "writing"
       /\ resp[i].start = 1
       /\ Len(resp[i].buf) = 2
       /\ k_pc = "write"
       /\ p_out[Len(p_out)] = [by |-> Responder(i), bytes |-> SubSeq(resp[i].buf, 1, 1)]

\* C30: every announce request carries the connection id stored by the most
\* recent successful connect of its session, and that connect's transaction
\* id; no announce is sent with the initial connection id 0, for announce
\* cannot be issued on a session whose connect has not succeeded.  So an
\* announce datagram (98 bytes, a connect request has 16) never begins with
\* 8 zero bytes.
C30_AnnounceAfterConnect ==
    Len(t_sent) > 16 => SubSeq(t_sent, 1, 8) # Zeros(8)

====
